---- MODULE Spec2Model ----
(***************************************************************************)
(* node-cgi-handler: the FastCGI protocol engine (fastcgi.js) and the      *)
(* handler glue of createServer (index.js), as a state machine.            *)
(*                                                                         *)
(* One server, a fixed set of transport connections, inbound records       *)
(* drawn from small sets, and application handlers that may call any       *)
(* response operation at any time between dispatch and settling.           *)
(***************************************************************************)
EXTENDS Integers, Sequences, FiniteSets, TLC

VARIABLES
    serverState,   \* "new" | "listening" | "closed"  (FastCGIServer.server)
    connections,   \* FastCGIServer.connections: the set of live sockets
    peers,         \* the clients that have yet to connect
    sock,          \* per socket: "none" | "open" | "destroyed" | "closed"
    requests,      \* per socket: the Map requestId -> FCGIRequest of _handleConnection
    written,       \* per socket: the records handed to socket.write, in order
    closedAt,      \* per socket: Len(written) when the socket was destroyed, -1 while it is not
    handlers,      \* the 'request' listener invocations, in dispatch order:
                   \* [res: the FCGIResponse, fcgiReq: the FCGIRequest dispatched, pc]
    crashed,       \* an exception escaped an event listener: the process is gone
    nrecv,         \* number of inbound records framed so far (bounded by MaxRecords)
    ncalls,        \* number of response calls handlers made so far (bounded by MaxCalls)
    stream,        \* history of the inbound stream per (socket, request id)
    serverOptions, \* FastCGIServer.options
    errors,        \* the sockets whose errors were emitted on the server's 'error' event
    callback,      \* the callback of close(): [pending, runs]
    wellFormed,    \* per socket: the inbound stream so far is a well-formed client stream
    cgi,           \* the CGI process under handle(): [res: the Response, pc]
    stdout,        \* the bytes handed to process.stdout.write, in order
    fcgi,          \* an FCGIResponse on a socket of its own under createServer's
                   \* listener: [res, pc]
    sink,          \* the records handed to that socket's write, in order
    thrown,        \* the message of the Error the latest response call threw
    nops,          \* number of response calls made on cgi and fcgi (bounded by MaxOps)
    passed,        \* history: per 'request' listener invocation, the chunks its
                   \* handler passed to write/end of an unfinished response, in order
    full,          \* per socket: its write buffer is full (socket.write returned
                   \* false and 'drain' has not been emitted since)
    query,         \* a call of parseQueryString: [input: the pairs URLSearchParams
                   \* yields, in order, out: what the call produced, pc]
    delivery,      \* one request on each transport: [env: the CGI variables,
                   \* stdin: the chunks of standard input / the contents of the
                   \* STDIN records, cgi, fcgi: the request object handed to the
                   \* handler, cgiPc, fcgiPc]
    reader,        \* a call of readBody: [contentLength, sent: the chunks the
                   \* stream has emitted, ended, chunks: what the call collected,
                   \* bytesRead, pc]
    routing,       \* a router: [routes, req: the request handle() was called
                   \* with, invoked: the routes whose handlers were invoked, in
                   \* order, res: the Response, pc]
    chain,         \* a handler built by compose: [length: middlewares.length,
                   \* index, stack: the middlewares running, innermost last,
                   \* invoked: the middlewares invoked by the current call, in
                   \* order, nexts: how often each called next() in the current
                   \* call, returned: which have returned, calls, pc]
    framing,       \* a call of buildStreamRecord: [data: the payload, out: the
                   \* records built, pc]
    sent,          \* history: per (socket, request id), the data received since
                   \* the latest BEGIN_REQUEST (kept for the clients that mark
                   \* their data)
    file,          \* the calls of sendFile on the CGI Response, in call order:
                   \* [path: the file named, pc: "stat" | "streaming" |
                   \* "resolved" | "rejected"]
    inbound        \* the 'data' listener of one connection, byte by byte:
                   \* [records: what the client encoded, rest: the bytes of
                   \* the stream that have not arrived, received: the bytes
                   \* that have, buffer, processed: the records handed to
                   \* _processRecord, in order]

engineVars == <<serverState, connections, peers, sock, requests, written, closedAt,
                handlers, crashed, nrecv, ncalls, stream, wellFormed,
                serverOptions, errors, callback>>

respVars == <<cgi, stdout, fcgi, sink, thrown, nops>>

muxVars == <<passed, full>>

unitVars == <<query, delivery, reader, routing, chain>>

codecVars == <<framing, inbound, file, sent>>

vars == <<engineVars, respVars, muxVars, unitVars, codecVars>>

----------------------------------------------------------------------------
(* Bounds of the model *)

MaxRecords == 4
MaxRecordsWF == 5
MaxCalls == 2
MaxRecordsConns == 3
MaxOps == 4
MaxRecordsMux == 6
MaxCallsMux == 5
MaxRecordsMgmt == 3
MaxOpsSend == 3
MaxOpsStatus == 3
MaxPairs == 3
MaxChunks == 3
MaxRoutes == 3
MaxMiddlewares == 3
MaxNexts == 2
MaxComposedCalls == 2
MaxSegments == 3
MaxFrames == 2
MaxRecordsIsolation == 9
MaxRecordsRebegin == 5
MaxOpsFile == 2
MaxSendFiles == 2

Sockets == {"s1", "s2"}
RequestIds == {1, 2}

----------------------------------------------------------------------------
(* Protocol constants *)

FCGI_BEGIN_REQUEST == 1
FCGI_ABORT_REQUEST == 2
FCGI_END_REQUEST == 3
FCGI_PARAMS == 4
FCGI_STDIN == 5
FCGI_STDOUT == 6
FCGI_STDERR == 7
FCGI_GET_VALUES == 9
FCGI_GET_VALUES_RESULT == 10
FCGI_HEADER_LEN == 8
FCGI_RESPONDER == 1
FCGI_AUTHORIZER == 2
FCGI_REQUEST_COMPLETE == 0
FCGI_UNKNOWN_ROLE == 3
FCGI_VERSION_1 == 1
maxChunkSize == 65535

----------------------------------------------------------------------------
(* Maps (JavaScript Map / plain object) as functions with a finite domain *)

EmptyMap == [k \in {} |-> 0]

MapSet(m, k, v) == [x \in (DOMAIN m) \cup {k} |-> IF x = k THEN v ELSE m[x]]

MapDelete(m, k) == [x \in (DOMAIN m) \ {k} |-> m[x]]

MapHas(m, k) == k \in DOMAIN m

\* A clear() that removes nothing
MapClear_Keeps(m) == m

\* Map.clear() / Set.clear()
MapClear(m) == EmptyMap

\* Object.assign(target, source)
ObjectAssign(target, source) ==
    [x \in (DOMAIN target) \cup (DOMAIN source) |->
        IF x \in DOMAIN source THEN source[x] ELSE target[x]]

Min(a, b) == IF a < b THEN a ELSE b

----------------------------------------------------------------------------
(* Name-value pairs.  A buffer is a sequence of bytes; offsets are 0-based  *)
(* as in the source.                                                        *)

ByteAt(buffer, offset) == buffer[offset + 1]

\* buffer.slice(start, end): clipped to the buffer, never throws
BufSlice(buffer, start, end) ==
    LET s == Min(start, Len(buffer))
        e == Min(end, Len(buffer))
    IN  IF e <= s THEN <<>> ELSE SubSeq(buffer, s + 1, e)

\* buffer.readUInt8(offset) throws a RangeError unless offset < length
CanReadUInt8(buffer, offset) == offset < Len(buffer)

\* buffer.readUInt32BE(offset) throws a RangeError unless offset + 4 <= length
CanReadUInt32(buffer, offset) == offset + 4 <= Len(buffer)

\* buffer.readUInt32BE(offset) & 0x7fffffff
ReadLen31(buffer, offset) ==
    (ByteAt(buffer, offset) % 128) * 16777216
    + ByteAt(buffer, offset + 1) * 65536
    + ByteAt(buffer, offset + 2) * 256
    + ByteAt(buffer, offset + 3)

\* One length prefix at offset: [ok, len, next].  ok = FALSE is the RangeError.
ReadLength(buffer, offset) ==
    IF ~CanReadUInt8(buffer, offset)
    THEN [ok |-> FALSE, len |-> 0, next |-> offset]
    ELSE IF ByteAt(buffer, offset) \div 128 = 1
         THEN IF CanReadUInt32(buffer, offset)
              THEN [ok |-> TRUE, len |-> ReadLen31(buffer, offset), next |-> offset + 4]
              ELSE [ok |-> FALSE, len |-> 0, next |-> offset]
         ELSE [ok |-> TRUE, len |-> ByteAt(buffer, offset), next |-> offset + 1]

RECURSIVE ParsePairsFrom(_, _, _)
ParsePairsFrom(buffer, offset, params) ==
    IF ~(offset < Len(buffer))
    THEN [ok |-> TRUE, params |-> params]
    ELSE LET n == ReadLength(buffer, offset) IN
         IF ~n.ok THEN [ok |-> FALSE, params |-> params]
         ELSE LET v == ReadLength(buffer, n.next) IN
              IF ~v.ok THEN [ok |-> FALSE, params |-> params]
              ELSE LET name == BufSlice(buffer, v.next, v.next + n.len)
                       value == BufSlice(buffer, v.next + n.len, v.next + n.len + v.len)
                   IN  ParsePairsFrom(buffer, v.next + n.len + v.len,
                                      MapSet(params, name, value))

\* parseNameValuePairs(buffer): ok = FALSE when a read throws
parseNameValuePairs(buffer) == ParsePairsFrom(buffer, 0, EmptyMap)

----------------------------------------------------------------------------
(* FCGIRequest *)

NewFCGIRequest(requestId, role, keepConn) ==
    [requestId |-> requestId, role |-> role, keepConn |-> keepConn,
     params |-> EmptyMap, paramsComplete |-> FALSE,
     stdin |-> <<>>, stdinComplete |-> FALSE]

\* addParams, when parseNameValuePairs does not throw
addParams(req, buffer) ==
    IF Len(buffer) = 0
    THEN [req EXCEPT !.paramsComplete = TRUE]
    ELSE [req EXCEPT !.params = ObjectAssign(@, parseNameValuePairs(buffer).params)]

\* addParams throws exactly when it parses and the parse throws
addParamsThrows(buffer) == Len(buffer) # 0 /\ ~parseNameValuePairs(buffer).ok

addStdin(req, buffer) ==
    IF Len(buffer) = 0
    THEN [req EXCEPT !.stdinComplete = TRUE]
    ELSE [req EXCEPT !.stdin = Append(@, buffer)]

\* isReady() that forgets the standard-input stream
isReady_ParamsOnly(req) == req.paramsComplete

isReady(req) == req.paramsComplete /\ req.stdinComplete

----------------------------------------------------------------------------
(* Byte payloads.  A payload is a sequence of segments [tag, val, off, len]: *)
(* len bytes, starting at byte off, of the chunk identified by (tag, val).   *)

RECURSIVE DataLen(_)
DataLen(data) == IF data = <<>> THEN 0 ELSE Head(data).len + DataLen(Tail(data))

\* data.slice(start, end) on a payload, 0 <= start <= end
RECURSIVE DataSlice(_, _, _)
DataSlice(data, start, end) ==
    IF data = <<>> \/ end <= 0 THEN <<>>
    ELSE LET h == Head(data) IN
         IF start >= h.len
         THEN DataSlice(Tail(data), start - h.len, end - h.len)
         ELSE LET e == Min(end, h.len) IN
              <<[h EXCEPT !.off = h.off + start, !.len = e - start]>>
              \o DataSlice(Tail(data), 0, end - h.len)

\* Buffer.concat(list): the bytes of the chunks in order (empty chunks add none)
BufferConcat(list) == DataSlice(list, 0, DataLen(list))

----------------------------------------------------------------------------
(* Frame codec, outbound *)

buildHeader(type, requestId, contentLength, paddingLength) ==
    [version |-> FCGI_VERSION_1, type |-> type, requestId |-> requestId,
     contentLength |-> contentLength, paddingLength |-> paddingLength, reserved |-> 0]

\* A record on the wire: header, content bytes, number of padding bytes
buildEndRequest(requestId, appStatus, protocolStatus) ==
    [header |-> buildHeader(FCGI_END_REQUEST, requestId, 8, 0),
     content |-> <<[tag |-> "appStatus", val |-> appStatus, off |-> 0, len |-> 4],
                   [tag |-> "protocolStatus", val |-> protocolStatus, off |-> 0, len |-> 1],
                   [tag |-> "reserved", val |-> 0, off |-> 0, len |-> 3]>>,
     padding |-> 0]

\* The loop of buildStreamRecord with no padding after the chunks
RECURSIVE StreamRecordsFrom_NoPadding(_, _, _, _)
StreamRecordsFrom_NoPadding(type, requestId, data, offset) ==
    IF ~(offset < DataLen(data)) THEN <<>>
    ELSE LET chunkSize == Min(maxChunkSize, DataLen(data) - offset)
         IN  <<[header |-> buildHeader(type, requestId, chunkSize, 0),
                content |-> DataSlice(data, offset, offset + chunkSize),
                padding |-> 0]>>
             \o StreamRecordsFrom_NoPadding(type, requestId, data, offset + chunkSize)

RECURSIVE StreamRecordsFrom(_, _, _, _)
StreamRecordsFrom(type, requestId, data, offset) ==
    IF ~(offset < DataLen(data)) THEN <<>>
    ELSE LET chunkSize == Min(maxChunkSize, DataLen(data) - offset)
             paddingLength == (8 - (chunkSize % 8)) % 8
         IN  <<[header |-> buildHeader(type, requestId, chunkSize, paddingLength),
                content |-> DataSlice(data, offset, offset + chunkSize),
                padding |-> paddingLength]>>
             \o StreamRecordsFrom(type, requestId, data, offset + chunkSize)

\* buildStreamRecord() that frames the whole payload as one record
buildStreamRecord_OneRecord(type, requestId, data) ==
    IF DataLen(data) = 0 THEN <<>>
    ELSE <<[header |-> buildHeader(type, requestId, DataLen(data),
                                   (8 - (DataLen(data) % 8)) % 8),
            content |-> data,
            padding |-> (8 - (DataLen(data) % 8)) % 8]>>

buildStreamRecord(type, requestId, data) == StreamRecordsFrom(type, requestId, data, 0)

\* buildHeader(FCGI_STDOUT, requestId, 0) written on its own
EmptyStdout(requestId) ==
    [header |-> buildHeader(FCGI_STDOUT, requestId, 0, 0), content |-> <<>>, padding |-> 0]

----------------------------------------------------------------------------
(* FCGIResponse *)

STATUS_MESSAGES(code) ==
    CASE code = 200 -> "OK"
      [] code = 201 -> "Created"
      [] code = 204 -> "No Content"
      [] code = 301 -> "Moved Permanently"
      [] code = 302 -> "Found"
      [] code = 304 -> "Not Modified"
      [] code = 400 -> "Bad Request"
      [] code = 401 -> "Unauthorized"
      [] code = 403 -> "Forbidden"
      [] code = 404 -> "Not Found"
      [] code = 500 -> "Internal Server Error"
      [] OTHER -> "Unknown"

\* this._headers[name] = value on an insertion-ordered object
HeaderSet(headers, name, value) ==
    IF \E i \in 1..Len(headers) : headers[i][1] = name
    THEN [i \in 1..Len(headers) |->
            IF headers[i][1] = name THEN <<name, value>> ELSE headers[i]]
    ELSE Append(headers, <<name, value>>)

\* new FCGIResponse(socket, requestId) that answers under request id 1
NewFCGIResponse_FirstId(socket, requestId) ==
    [socket |-> socket, requestId |-> 1, statusCode |-> 200,
     headers |-> <<<<"Content-Type", "text/html; charset=utf-8">>>>,
     headersSent |-> FALSE, finished |-> FALSE, cookies |-> <<>>, buffer |-> <<>>]

NewFCGIResponse(socket, requestId) ==
    [socket |-> socket, requestId |-> requestId, statusCode |-> 200,
     headers |-> <<<<"Content-Type", "text/html; charset=utf-8">>>>,
     headersSent |-> FALSE, finished |-> FALSE, cookies |-> <<>>, buffer |-> <<>>]

RECURSIVE HeaderLinesLen(_)
HeaderLinesLen(headers) ==
    IF headers = <<>> THEN 0
    ELSE Len(Head(headers)[1]) + 2 + Len(Head(headers)[2]) + 2 + HeaderLinesLen(Tail(headers))

RECURSIVE CookieLinesLen(_)
CookieLinesLen(cookies) ==
    IF cookies = <<>> THEN 0
    ELSE 12 + Len(Head(cookies)) + 2 + CookieLinesLen(Tail(cookies))

\* _buildHeaders(): the header block as one chunk, with its byte length
\* ("Status: " + three digits + " " + reason + CRLF, the lines, CRLF)
buildHeaders(res) ==
    [tag |-> "hdr",
     val |-> [statusCode |-> res.statusCode, reason |-> STATUS_MESSAGES(res.statusCode),
              headers |-> res.headers, cookies |-> res.cookies],
     off |-> 0,
     len |-> 8 + 3 + 1 + Len(STATUS_MESSAGES(res.statusCode)) + 2
             + HeaderLinesLen(res.headers) + CookieLinesLen(res.cookies) + 2]

\* A value the handler passes: kind is its JavaScript type, len its byte
\* length as a string or Buffer, jsonLen the byte length of JSON.stringify
ChunkOf(body) == [tag |-> body.kind, val |-> body.val, off |-> 0, len |-> body.len]

JsonStringify(data) ==
    [kind |-> "string", val |-> <<"json", data.val>>, len |-> data.jsonLen, jsonLen |-> 0]

status(res, code) == [res EXCEPT !.statusCode = code]

set(res, name, value) == [res EXCEPT !.headers = HeaderSet(@, name, value)]

type(res, contentType) ==
    set(res, "Content-Type",
        CASE contentType = "html" -> "text/html; charset=utf-8"
          [] contentType = "text" -> "text/plain; charset=utf-8"
          [] contentType = "json" -> "application/json; charset=utf-8"
          [] OTHER -> contentType)

\* write(chunk) that puts the chunk in front of what is buffered
write_Unshift(res, chunk) ==
    LET r1 == IF ~res.headersSent
              THEN [res EXCEPT !.buffer = Append(@, buildHeaders(res)), !.headersSent = TRUE]
              ELSE res
    IN  IF chunk.kind \in {"string", "buffer"}
        THEN [r1 EXCEPT !.buffer = <<ChunkOf(chunk)>> \o @]
        ELSE r1

\* write(chunk): only buffers; nothing reaches the socket
write(res, chunk) ==
    LET r1 == IF ~res.headersSent
              THEN [res EXCEPT !.buffer = Append(@, buildHeaders(res)), !.headersSent = TRUE]
              ELSE res
    IN  IF chunk.kind \in {"string", "buffer"}
        THEN [r1 EXCEPT !.buffer = Append(@, ChunkOf(chunk))]
        ELSE r1

Undefined == [kind |-> "undefined", val |-> "undefined", len |-> 0, jsonLen |-> 0]

\* end(data) without the _finished test
end_Again(res, data) ==
    LET r1 == IF data.kind # "undefined" THEN write(res, data)
              ELSE IF ~res.headersSent
                   THEN [res EXCEPT !.buffer = Append(@, buildHeaders(res)),
                                    !.headersSent = TRUE]
                   ELSE res
        fullBody == BufferConcat(r1.buffer)
        stdoutRecords == IF DataLen(fullBody) > 0
                         THEN buildStreamRecord(FCGI_STDOUT, res.requestId, fullBody)
                         ELSE <<>>
    IN  [res |-> [r1 EXCEPT !.finished = TRUE],
         out |-> stdoutRecords
                 \o <<EmptyStdout(res.requestId)>>
                 \o <<buildEndRequest(res.requestId, 0, FCGI_REQUEST_COMPLETE)>>]

\* end(data): [res, out] where out is what the call hands to socket.write
end(res, data) ==
    IF res.finished THEN [res |-> res, out |-> <<>>]
    ELSE LET r1 == IF data.kind # "undefined" THEN write(res, data)
                   ELSE IF ~res.headersSent
                        THEN [res EXCEPT !.buffer = Append(@, buildHeaders(res)),
                                         !.headersSent = TRUE]
                        ELSE res
             fullBody == BufferConcat(r1.buffer)
             stdoutRecords == IF DataLen(fullBody) > 0
                              THEN buildStreamRecord(FCGI_STDOUT, res.requestId, fullBody)
                              ELSE <<>>
         IN  [res |-> [r1 EXCEPT !.finished = TRUE],
              out |-> stdoutRecords
                      \o <<EmptyStdout(res.requestId)>>
                      \o <<buildEndRequest(res.requestId, 0, FCGI_REQUEST_COMPLETE)>>]

json(res, data) == end(type(res, "json"), JsonStringify(data))

send(res, body) ==
    IF body.kind \in {"object", "null"} THEN json(res, body) ELSE end(res, body)

redirect(res, url, statusCode) == end(set(status(res, statusCode), "Location", url), Undefined)

----------------------------------------------------------------------------
(* Cookies (both response classes build the cookie string the same way;     *)
(* FCGIResponse.cookie has no expires option)                               *)

\* options of cookie(): 0, "" and FALSE stand for an absent option
NoOptions ==
    [maxAge |-> 0, expires |-> "", path |-> "", domain |-> "", secure |-> FALSE,
     httpOnly |-> FALSE, sameSite |-> ""]

\* encodeURIComponent on the names and values of the model (unreserved
\* characters only) returns its argument
CookieStr(name, value, options, withExpires) ==
    name \o "=" \o value
    \o (IF options.maxAge # 0 THEN "; Max-Age=" \o ToString(options.maxAge) ELSE "")
    \o (IF withExpires /\ options.expires # "" THEN "; Expires=" \o options.expires ELSE "")
    \o (IF options.path # "" THEN "; Path=" \o options.path ELSE "")
    \o (IF options.domain # "" THEN "; Domain=" \o options.domain ELSE "")
    \o (IF options.secure THEN "; Secure" ELSE "")
    \o (IF options.httpOnly THEN "; HttpOnly" ELSE "")
    \o (IF options.sameSite # "" THEN "; SameSite=" \o options.sameSite ELSE "")

\* FCGIResponse.cookie(name, value, options)
cookie(res, name, value, options) ==
    [res EXCEPT !.cookies = Append(@, CookieStr(name, value, options, FALSE))]

----------------------------------------------------------------------------
(* Response (response.js): the CGI response, writing to process.stdout.     *)
(* Every operation yields [res, out, err]: the object afterwards, the bytes *)
(* it handed to stdout.write, and the message of the Error it threw         *)
(* ("none" when it returned).                                               *)

NoError == "none"

Response_STATUS_MESSAGES(code) ==
    CASE code = 200 -> "OK"
      [] code = 201 -> "Created"
      [] code = 204 -> "No Content"
      [] code = 301 -> "Moved Permanently"
      [] code = 302 -> "Found"
      [] code = 304 -> "Not Modified"
      [] code = 400 -> "Bad Request"
      [] code = 401 -> "Unauthorized"
      [] code = 403 -> "Forbidden"
      [] code = 404 -> "Not Found"
      [] code = 405 -> "Method Not Allowed"
      [] code = 500 -> "Internal Server Error"
      [] code = 502 -> "Bad Gateway"
      [] code = 503 -> "Service Unavailable"
      [] OTHER -> "Unknown"

NewResponse ==
    [statusCode |-> 200,
     headers |-> <<<<"Content-Type", "text/html; charset=utf-8">>>>,
     headersSent |-> FALSE, finished |-> FALSE, cookies |-> <<>>]

Returned(res, out) == [res |-> res, out |-> out, err |-> NoError]

Threw(res, out, message) == [res |-> res, out |-> out, err |-> message]

\* this._headers[name] is truthy
HeaderHas(headers, name) ==
    \E i \in 1..Len(headers) : headers[i][1] = name /\ headers[i][2] # ""

\* delete this._headers[name]
HeaderDelete(headers, name) == SelectSeq(headers, LAMBDA h : h[1] # name)

Response_status(res, code) ==
    IF res.headersSent
    THEN Threw(res, <<>>, "Cannot set status after headers sent")
    ELSE Returned([res EXCEPT !.statusCode = code], <<>>)

Response_set(res, name, value) ==
    IF res.headersSent
    THEN Threw(res, <<>>, "Cannot set headers after they are sent")
    ELSE Returned([res EXCEPT !.headers = HeaderSet(@, name, value)], <<>>)

Response_removeHeader(res, name) ==
    Returned([res EXCEPT !.headers = HeaderDelete(@, name)], <<>>)

Response_type(res, contentType) ==
    Response_set(res, "Content-Type",
        CASE contentType = "html" -> "text/html; charset=utf-8"
          [] contentType = "text" -> "text/plain; charset=utf-8"
          [] contentType = "json" -> "application/json; charset=utf-8"
          [] contentType = "xml" -> "application/xml; charset=utf-8"
          [] contentType = "css" -> "text/css; charset=utf-8"
          [] contentType = "js" -> "application/javascript; charset=utf-8"
          [] OTHER -> contentType)

Response_cookie(res, name, value, options) ==
    IF res.headersSent
    THEN Threw(res, <<>>, "Cannot set cookie after headers sent")
    ELSE Returned([res EXCEPT !.cookies = Append(@, CookieStr(name, value, options, TRUE))],
                  <<>>)

\* new Date(0).toUTCString()
Epoch == "Thu, 01 Jan 1970 00:00:00 GMT"

Response_clearCookie(res, name, options) ==
    Response_cookie(res, name, "", [options EXCEPT !.expires = Epoch])

\* _writeHeaders() without the _headersSent test
Response_writeHeaders_Again(res) ==
    IF FALSE THEN Returned(res, <<>>)
    ELSE Returned([res EXCEPT !.headersSent = TRUE],
                  <<[tag |-> "hdr",
                     val |-> [statusCode |-> res.statusCode,
                              reason |-> Response_STATUS_MESSAGES(res.statusCode),
                              headers |-> res.headers, cookies |-> res.cookies],
                     off |-> 0,
                     len |-> 8 + Len(ToString(res.statusCode)) + 1
                             + Len(Response_STATUS_MESSAGES(res.statusCode)) + 2
                             + HeaderLinesLen(res.headers) + CookieLinesLen(res.cookies)
                             + 2]>>)

\* _writeHeaders(): the status line, the header lines, the cookie lines and
\* the empty line, as one chunk of the byte length of all of them
Response_writeHeaders(res) ==
    IF res.headersSent THEN Returned(res, <<>>)
    ELSE Returned([res EXCEPT !.headersSent = TRUE],
                  <<[tag |-> "hdr",
                     val |-> [statusCode |-> res.statusCode,
                              reason |-> Response_STATUS_MESSAGES(res.statusCode),
                              headers |-> res.headers, cookies |-> res.cookies],
                     off |-> 0,
                     len |-> 8 + Len(ToString(res.statusCode)) + 1
                             + Len(Response_STATUS_MESSAGES(res.statusCode)) + 2
                             + HeaderLinesLen(res.headers) + CookieLinesLen(res.cookies)
                             + 2]>>)

\* String(chunk) of a value that is neither a string nor a Buffer
StringOf(chunk) ==
    IF chunk.kind = "object"
    THEN [tag |-> "string", val |-> "[object Object]", off |-> 0, len |-> 15]
    ELSE [tag |-> "string", val |-> chunk.kind, off |-> 0, len |-> Len(chunk.kind)]

\* write() that writes whether or not the response is finished
Response_write_Unguarded(res, chunk) ==
    LET h == Response_writeHeaders(res)
    IN  Returned(h.res, h.out \o <<IF chunk.kind \in {"string", "buffer"}
                                   THEN ChunkOf(chunk) ELSE StringOf(chunk)>>)

Response_write(res, chunk) ==
    IF res.finished
    THEN Threw(res, <<>>, "Cannot write after response finished")
    ELSE LET h == Response_writeHeaders(res)
         IN  Returned(h.res, h.out \o <<IF chunk.kind \in {"string", "buffer"}
                                        THEN ChunkOf(chunk) ELSE StringOf(chunk)>>)

Response_end(res, data) ==
    IF res.finished THEN Returned(res, <<>>)
    ELSE LET w == IF data.kind # "undefined" THEN Response_write(res, data)
                  ELSE Response_writeHeaders(res)
         IN  IF w.err # NoError THEN w
             ELSE Returned([w.res EXCEPT !.finished = TRUE], w.out)

Response_json(res, data) ==
    LET t == Response_type(res, "json") IN
    IF t.err # NoError THEN t
    ELSE LET body == JsonStringify(data)
             l == Response_set(t.res, "Content-Length", ToString(body.len))
         IN  IF l.err # NoError THEN l ELSE Response_end(l.res, body)

Response_send(res, body) ==
    IF body.kind \in {"undefined", "null"} THEN Response_end(res, Undefined)
    ELSE IF body.kind \in {"string", "buffer"}
    THEN LET t == IF ~HeaderHas(res.headers, "Content-Type")
                  THEN Response_type(res, IF body.kind = "string" THEN "html"
                                          ELSE "application/octet-stream")
                  ELSE Returned(res, <<>>)
         IN  IF t.err # NoError THEN t ELSE Response_end(t.res, body)
    ELSE Response_json(res, body)

Response_redirect(res, url, statusCode) ==
    LET c == Response_status(res, statusCode) IN
    IF c.err # NoError THEN c
    ELSE LET l == Response_set(c.res, "Location", url) IN
         IF l.err # NoError THEN l ELSE Response_end(l.res, Undefined)

----------------------------------------------------------------------------
(* Inputs *)

\* BEGIN_REQUEST bodies: role (2 bytes, big-endian), flags, 5 reserved bytes
BeginContents ==
    { <<0, 1, 0, 0, 0, 0, 0, 0>>,     \* RESPONDER, keep-connection clear
      <<0, 1, 1, 0, 0, 0, 0, 0>>,     \* RESPONDER, keep-connection set
      <<0, 2, 0, 0, 0, 0, 0, 0>> }    \* AUTHORIZER

\* PARAMS contents
ParamContents ==
    { <<>>,                            \* the stream terminator
      <<128, 0, 0, 1, 1, 65, 66>>,     \* A=B, name length in the 4-byte form
      <<1, 2, 67, 68>>,                \* C=D?, the value runs past the end of the content
      <<1, 1, 65, 66, 1>> }            \* A=B, then a pair cut after its name length

StdinContents == { <<>>, <<120>> }

Versions == {1, 2}

InboundRecords ==
    [version : Versions, type : {FCGI_BEGIN_REQUEST}, requestId : RequestIds,
     content : BeginContents]
    \cup [version : Versions, type : {FCGI_PARAMS}, requestId : RequestIds,
          content : ParamContents]
    \cup [version : Versions, type : {FCGI_STDIN}, requestId : RequestIds,
          content : StdinContents]
    \cup [version : Versions, type : {FCGI_ABORT_REQUEST, FCGI_STDERR},
          requestId : RequestIds, content : {<<>>}]

\* Values a handler passes to the response
StrHello == [kind |-> "string", val |-> "hello", len |-> 5, jsonLen |-> 7]
BufBig == [kind |-> "buffer", val |-> "big", len |-> 65535, jsonLen |-> 0]
Obj == [kind |-> "object", val |-> "obj", len |-> 0, jsonLen |-> 16]
\* null: JSON.stringify(null) is the four characters null
Null == [kind |-> "null", val |-> "null", len |-> 0, jsonLen |-> 4]
ErrorMessage ==
    [kind |-> "string", val |-> "Internal Server Error: boom", len |-> 27, jsonLen |-> 29]

----------------------------------------------------------------------------
(* History of the inbound stream (observation only; no action reads it) *)

\* Since the latest BEGIN_REQUEST of the id: begun counts the BEGIN_REQUESTs,
\* termP / termS say a zero-length PARAMS / STDIN record arrived, aborted
\* that an ABORT_REQUEST arrived, and dispatched counts the 'request' events
NoStream == [begun |-> 0, termP |-> FALSE, termS |-> FALSE, aborted |-> FALSE,
             dispatched |-> 0]

\* The name-value content holds whole pairs only
RECURSIVE WholePairsFrom(_, _)
WholePairsFrom(buffer, offset) ==
    IF offset = Len(buffer) THEN TRUE
    ELSE LET n == ReadLength(buffer, offset) IN
         /\ n.ok
         /\ LET v == ReadLength(buffer, n.next) IN
            /\ v.ok
            /\ v.next + n.len + v.len <= Len(buffer)
            /\ WholePairsFrom(buffer, v.next + n.len + v.len)

Truncated(content) == ~WholePairsFrom(content, 0)

\* The record keeps the stream of socket s well-formed: version 1, every
\* request id begun once, as a responder, data only for a begun request that
\* was not aborted and whose stream is still open, whole name-value pairs
KeepsWellFormed(st, rec) ==
    /\ rec.version = FCGI_VERSION_1
    /\ CASE rec.type = FCGI_BEGIN_REQUEST ->
              st.begun = 0 /\ rec.content[1] * 256 + rec.content[2] = FCGI_RESPONDER
         [] rec.type = FCGI_PARAMS ->
              st.begun > 0 /\ ~st.aborted /\ ~st.termP /\ ~Truncated(rec.content)
         [] rec.type = FCGI_STDIN ->
              st.begun > 0 /\ ~st.aborted /\ ~st.termS
         [] rec.type = FCGI_ABORT_REQUEST ->
              st.begun > 0 /\ ~st.aborted
         [] OTHER -> TRUE

StreamAfter(st, rec, didDispatch) ==
    LET s1 == CASE rec.type = FCGI_BEGIN_REQUEST ->
                     [NoStream EXCEPT !.begun = st.begun + 1]
                [] rec.type = FCGI_PARAMS /\ Len(rec.content) = 0 ->
                     [st EXCEPT !.termP = TRUE]
                [] rec.type = FCGI_STDIN /\ Len(rec.content) = 0 ->
                     [st EXCEPT !.termS = TRUE]
                [] rec.type = FCGI_ABORT_REQUEST ->
                     [st EXCEPT !.aborted = TRUE]
                [] OTHER -> st
    IN  IF didDispatch THEN [s1 EXCEPT !.dispatched = @ + 1] ELSE s1

\* Since the latest BEGIN_REQUEST of the id: the non-empty PARAMS and STDIN
\* contents received, in order
NoneSent == [params |-> <<>>, stdin |-> <<>>]

SentAfter(st, rec) ==
    CASE rec.type = FCGI_BEGIN_REQUEST -> NoneSent
      [] rec.type = FCGI_PARAMS /\ Len(rec.content) # 0 ->
           [st EXCEPT !.params = Append(@, rec.content)]
      [] rec.type = FCGI_STDIN /\ Len(rec.content) # 0 ->
           [st EXCEPT !.stdin = Append(@, rec.content)]
      [] OTHER -> st

----------------------------------------------------------------------------
(* The engine *)

\* No handler has passed anything, no write buffer is full
\* No unit of the CGI module is under call
NoResult == [ok |-> TRUE, result |-> EmptyMap]
NullBody == [kind |-> "null", val |-> <<>>]
NoRequest == [method |-> "", rawBody |-> <<>>, body |-> NullBody]
QueryIdle == query = [input |-> <<>>, out |-> NoResult, pc |-> "none"]
DeliveryIdle ==
    delivery = [env |-> EmptyMap, stdin |-> <<>>, cgi |-> NoRequest, fcgi |-> NoRequest,
                cgiPc |-> "none", fcgiPc |-> "none"]
ReaderIdle ==
    reader = [contentLength |-> "", sent |-> <<>>, ended |-> FALSE, chunks |-> <<>>,
              bytesRead |-> 0, pc |-> "none"]
NoParams == [k \in {} |-> ""]
NoReq == [method |-> "", path |-> <<>>, params |-> NoParams]
RoutingIdle ==
    routing = [routes |-> <<>>, req |-> NoReq, invoked |-> <<>>, res |-> NewResponse,
               pc |-> "none"]
NoNexts == [k \in 1..MaxMiddlewares |-> 0]
ChainIdle ==
    chain = [length |-> 0, index |-> 0, stack |-> <<>>, invoked |-> <<>>,
             nexts |-> NoNexts, returned |-> {}, calls |-> 0, pc |-> "none"]
UnitIdle == QueryIdle /\ DeliveryIdle /\ ReaderIdle /\ RoutingIdle /\ ChainIdle

FramingIdle == framing = [data |-> <<>>, out |-> <<>>, pc |-> "none"]
InboundIdle ==
    inbound = [records |-> <<>>, rest |-> <<>>, received |-> <<>>, buffer |-> <<>>,
               processed |-> <<>>]
FileIdle == file = <<>>
SentIdle == sent = [s \in Sockets |-> [id \in RequestIds |-> NoneSent]]
CodecIdle == FramingIdle /\ InboundIdle /\ FileIdle /\ SentIdle

MuxIdle ==
    /\ passed = EmptyMap
    /\ full = [s \in Sockets |-> FALSE]

\* new FastCGIServer(): no options given
NoServerOptions == [k \in {} |-> 0]

\* this.options = { maxConns: options.maxConns || 100,
\*                  maxReqs: options.maxReqs || 100, ...options }
ServerOptions(given) ==
    ObjectAssign(
        [maxConns |-> IF "maxConns" \in DOMAIN given /\ given.maxConns # 0
                      THEN given.maxConns ELSE 100,
         maxReqs |-> IF "maxReqs" \in DOMAIN given /\ given.maxReqs # 0
                     THEN given.maxReqs ELSE 100],
        given)

Init ==
    /\ serverState = "new"
    /\ connections = {}
    /\ peers = {"s1"}
    /\ sock = [s \in Sockets |-> "none"]
    /\ requests = [s \in Sockets |-> EmptyMap]
    /\ written = [s \in Sockets |-> <<>>]
    /\ closedAt = [s \in Sockets |-> -1]
    /\ handlers = <<>>
    /\ crashed = FALSE
    /\ nrecv = 0
    /\ ncalls = 0
    /\ stream = [s \in Sockets |-> [id \in RequestIds |-> NoStream]]
    /\ wellFormed = [s \in Sockets |-> TRUE]
    /\ serverOptions = ServerOptions(NoServerOptions)
    /\ errors = <<>>
    /\ callback = [pending |-> FALSE, runs |-> 0]
    /\ cgi = [res |-> NewResponse, pc |-> "none"]
    /\ stdout = <<>>
    /\ fcgi = [res |-> NewFCGIResponse("s2", 1), pc |-> "none"]
    /\ sink = <<>>
    /\ thrown = NoError
    /\ nops = 0
    /\ MuxIdle
    /\ UnitIdle
    /\ CodecIdle

\* listen(portOrPath)
Listen ==
    /\ ~crashed
    /\ serverState = "new"
    /\ serverState' = "listening"
    /\ UNCHANGED <<connections, peers, sock, requests, written, closedAt, handlers,
                   crashed, nrecv, ncalls, stream, wellFormed>>
    /\ UNCHANGED <<serverOptions, errors, callback>>
    /\ UNCHANGED respVars
    /\ UNCHANGED muxVars
    /\ UNCHANGED unitVars
    /\ UNCHANGED codecVars

\* _handleConnection(socket): a connection is accepted
Connect(s) ==
    /\ ~crashed
    /\ serverState = "listening"
    /\ s \in peers
    /\ peers' = peers \ {s}
    /\ sock' = [sock EXCEPT ![s] = "open"]
    /\ connections' = connections \cup {s}
    /\ requests' = [requests EXCEPT ![s] = EmptyMap]
    /\ UNCHANGED <<serverState, written, closedAt, handlers, crashed, nrecv,
                   ncalls, stream, wellFormed>>
    /\ UNCHANGED <<serverOptions, errors, callback>>
    /\ UNCHANGED respVars
    /\ UNCHANGED muxVars
    /\ UNCHANGED unitVars
    /\ UNCHANGED codecVars

\* _tryHandleRequest() that leaves the dispatched request in the Map
tryHandleRequest_NoDelete(reqs, requestId) ==
    IF requestId \notin DOMAIN reqs \/ ~isReady(reqs[requestId])
    THEN [requests |-> reqs, dispatch |-> FALSE]
    ELSE [requests |-> reqs, dispatch |-> TRUE]

\* _tryHandleRequest(socket, requests, requestId) on the Map reqs:
\* the Map afterwards and whether 'request' is emitted
tryHandleRequest(reqs, requestId) ==
    IF requestId \notin DOMAIN reqs \/ ~isReady(reqs[requestId])
    THEN [requests |-> reqs, dispatch |-> FALSE]
    ELSE [requests |-> MapDelete(reqs, requestId), dispatch |-> TRUE]

\* case FCGI_ABORT_REQUEST that keeps the request in the Map
abortRequest_Keeps(reqs, requestId) == reqs

\* case FCGI_ABORT_REQUEST of _processRecord
abortRequest(reqs, requestId) == MapDelete(reqs, requestId)

\* records handed to socket.write by handler invocation i (0: by the engine)
WrittenBy(recs, i) ==
    [k \in 1..Len(recs) |->
        [header |-> recs[k].header, content |-> recs[k].content,
         padding |-> recs[k].padding, by |-> i]]

\* "FCGI_MAX_CONNS", "FCGI_MAX_REQS", "FCGI_MPXS_CONNS" as bytes
NameMaxConns == <<70, 67, 71, 73, 95, 77, 65, 88, 95, 67, 79, 78, 78, 83>>
NameMaxReqs == <<70, 67, 71, 73, 95, 77, 65, 88, 95, 82, 69, 81, 83>>
NameMpxsConns == <<70, 67, 71, 73, 95, 77, 80, 88, 83, 95, 67, 79, 78, 78, 83>>

\* String(n) as bytes
RECURSIVE StringBytes(_)
StringBytes(n) ==
    IF n < 10 THEN <<48 + n>> ELSE StringBytes(n \div 10) \o <<48 + (n % 10)>>

\* One pair of the result: both lengths as single bytes, the name, the value
ResultPair(name, value) == <<Len(name) % 256, Len(value) % 256>> \o name \o value

\* _buildGetValuesResult() that reports every key, queried or not
buildGetValuesResult_All(requestId, content) ==
    LET resultBuffer == ResultPair(NameMaxConns, StringBytes(serverOptions.maxConns))
                        \o ResultPair(NameMaxReqs, StringBytes(serverOptions.maxReqs))
                        \o ResultPair(NameMpxsConns, <<49>>)
    IN  [ok |-> parseNameValuePairs(content).ok,
         record |-> [header |-> buildHeader(FCGI_GET_VALUES_RESULT, 0, Len(resultBuffer), 0),
                     content |-> <<[tag |-> "bytes", val |-> resultBuffer, off |-> 0,
                                    len |-> Len(resultBuffer)]>>,
                     padding |-> 0]]

\* _buildGetValuesResult(requestId, content): ok = FALSE when the parse throws
buildGetValuesResult(requestId, content) ==
    LET p == parseNameValuePairs(content)
        resultBuffer ==
            (IF NameMaxConns \in DOMAIN p.params
             THEN ResultPair(NameMaxConns, StringBytes(serverOptions.maxConns)) ELSE <<>>)
            \o (IF NameMaxReqs \in DOMAIN p.params
                THEN ResultPair(NameMaxReqs, StringBytes(serverOptions.maxReqs)) ELSE <<>>)
            \o (IF NameMpxsConns \in DOMAIN p.params
                THEN ResultPair(NameMpxsConns, <<49>>) ELSE <<>>)
    IN  [ok |-> p.ok,
         record |-> [header |-> buildHeader(FCGI_GET_VALUES_RESULT, 0, Len(resultBuffer), 0),
                     content |-> <<[tag |-> "bytes", val |-> resultBuffer, off |-> 0,
                                    len |-> Len(resultBuffer)]>>,
                     padding |-> 0]]

\* _processRecord() whose BEGIN_REQUEST keeps a request already in the Map
processRecord_KeepsBegun(reqs, rec) ==
    CASE rec.type = FCGI_BEGIN_REQUEST ->
           LET role == rec.content[1] * 256 + rec.content[2]
               flags == rec.content[3]
               keepConn == (flags % 2) # 0
           IN  [requests |-> IF rec.requestId \in DOMAIN reqs THEN reqs
                             ELSE MapSet(reqs, rec.requestId,
                                         NewFCGIRequest(rec.requestId, role, keepConn)),
                dispatch |-> FALSE, throws |-> FALSE, out |-> <<>>]
      [] rec.type = FCGI_PARAMS ->
           IF rec.requestId \in DOMAIN reqs /\ addParamsThrows(rec.content)
           THEN [requests |-> reqs, dispatch |-> FALSE, throws |-> TRUE, out |-> <<>>]
           ELSE LET r1 == IF rec.requestId \in DOMAIN reqs
                          THEN MapSet(reqs, rec.requestId,
                                      addParams(reqs[rec.requestId], rec.content))
                          ELSE reqs
                    t == tryHandleRequest(r1, rec.requestId)
                IN  [requests |-> t.requests, dispatch |-> t.dispatch, throws |-> FALSE, out |-> <<>>]
      [] rec.type = FCGI_STDIN ->
           LET r1 == IF rec.requestId \in DOMAIN reqs
                     THEN MapSet(reqs, rec.requestId,
                                 addStdin(reqs[rec.requestId], rec.content))
                     ELSE reqs
               t == tryHandleRequest(r1, rec.requestId)
           IN  [requests |-> t.requests, dispatch |-> t.dispatch, throws |-> FALSE, out |-> <<>>]
      [] rec.type = FCGI_ABORT_REQUEST ->
           [requests |-> abortRequest(reqs, rec.requestId),
            dispatch |-> FALSE, throws |-> FALSE, out |-> <<>>]
      [] rec.type = FCGI_GET_VALUES ->
           LET g == buildGetValuesResult(rec.requestId, rec.content) IN
           [requests |-> reqs, dispatch |-> FALSE, throws |-> ~g.ok,
            out |-> IF g.ok THEN <<g.record>> ELSE <<>>]
      [] OTHER ->
           [requests |-> reqs, dispatch |-> FALSE, throws |-> FALSE, out |-> <<>>]

\* _processRecord(socket, requests, header, content) on the Map reqs:
\* [requests, dispatch, throws, out]; out is what it hands to socket.write
processRecord(reqs, rec) ==
    CASE rec.type = FCGI_BEGIN_REQUEST ->
           LET role == rec.content[1] * 256 + rec.content[2]
               flags == rec.content[3]
               keepConn == (flags % 2) # 0
           IN  [requests |-> MapSet(reqs, rec.requestId,
                                    NewFCGIRequest(rec.requestId, role, keepConn)),
                dispatch |-> FALSE, throws |-> FALSE, out |-> <<>>]
      [] rec.type = FCGI_PARAMS ->
           IF rec.requestId \in DOMAIN reqs /\ addParamsThrows(rec.content)
           THEN [requests |-> reqs, dispatch |-> FALSE, throws |-> TRUE, out |-> <<>>]
           ELSE LET r1 == IF rec.requestId \in DOMAIN reqs
                          THEN MapSet(reqs, rec.requestId,
                                      addParams(reqs[rec.requestId], rec.content))
                          ELSE reqs
                    t == tryHandleRequest(r1, rec.requestId)
                IN  [requests |-> t.requests, dispatch |-> t.dispatch, throws |-> FALSE, out |-> <<>>]
      [] rec.type = FCGI_STDIN ->
           LET r1 == IF rec.requestId \in DOMAIN reqs
                     THEN MapSet(reqs, rec.requestId,
                                 addStdin(reqs[rec.requestId], rec.content))
                     ELSE reqs
               t == tryHandleRequest(r1, rec.requestId)
           IN  [requests |-> t.requests, dispatch |-> t.dispatch, throws |-> FALSE, out |-> <<>>]
      [] rec.type = FCGI_ABORT_REQUEST ->
           [requests |-> abortRequest(reqs, rec.requestId),
            dispatch |-> FALSE, throws |-> FALSE, out |-> <<>>]
      [] rec.type = FCGI_GET_VALUES ->
           LET g == buildGetValuesResult(rec.requestId, rec.content) IN
           [requests |-> reqs, dispatch |-> FALSE, throws |-> ~g.ok,
            out |-> IF g.ok THEN <<g.record>> ELSE <<>>]
      [] OTHER ->
           [requests |-> reqs, dispatch |-> FALSE, throws |-> FALSE, out |-> <<>>]

\* The request handed to the listener is built from the FCGIRequest that
\* was ready: the one in the Map after the record was added
DispatchedRequest(reqs, rec) ==
    IF rec.type = FCGI_PARAMS
    THEN addParams(reqs[rec.requestId], rec.content)
    ELSE addStdin(reqs[rec.requestId], rec.content)

\* A 'data' listener that waits until no handler is in flight
Receive_Serial(s, rec, max) ==
    /\ ~crashed
    /\ \A i \in 1..Len(handlers) : handlers[i].pc # "running"
    /\ sock[s] = "open"
    /\ nrecv < max
    /\ nrecv' = nrecv + 1
    /\ LET p == processRecord(requests[s], rec) IN
       IF p.throws
       THEN /\ crashed' = TRUE
            /\ UNCHANGED <<requests, handlers, stream, wellFormed, written>>
       ELSE /\ crashed' = FALSE
            /\ written' = [written EXCEPT ![s] = @ \o WrittenBy(p.out, 0)]
            /\ requests' = [requests EXCEPT ![s] = p.requests]
            /\ handlers' =
                 IF p.dispatch
                 THEN Append(handlers,
                             [res |-> NewFCGIResponse(s, rec.requestId),
                              fcgiReq |-> DispatchedRequest(requests[s], rec),
                              pc |-> "running"])
                 ELSE handlers
            /\ stream' = IF rec.requestId \in RequestIds
                          THEN [stream EXCEPT ![s][rec.requestId] =
                                   StreamAfter(@, rec, p.dispatch)]
                          ELSE stream
            /\ wellFormed' = IF rec.requestId \in RequestIds
                              THEN [wellFormed EXCEPT ![s] =
                                       @ /\ KeepsWellFormed(stream[s][rec.requestId], rec)]
                              ELSE wellFormed
    /\ UNCHANGED <<serverState, connections, peers, sock, closedAt, ncalls>>
    /\ UNCHANGED <<serverOptions, errors, callback>>
    /\ UNCHANGED respVars
    /\ UNCHANGED muxVars
    /\ UNCHANGED unitVars
    /\ UNCHANGED <<framing, inbound, file>>

\* socket.on('data'): the chunk completes one record, which is framed
\* (parseHeader checks no field) and handed to _processRecord; a 'request'
\* listener is started when the request is ready.  A RangeError thrown by a
\* Buffer read escapes the listener.
Receive(s, rec, max) ==
    /\ ~crashed
    /\ sock[s] = "open"
    /\ nrecv < max
    /\ nrecv' = nrecv + 1
    /\ LET p == processRecord(requests[s], rec) IN
       IF p.throws
       THEN /\ crashed' = TRUE
            /\ UNCHANGED <<requests, handlers, stream, wellFormed, written>>
       ELSE /\ crashed' = FALSE
            /\ written' = [written EXCEPT ![s] = @ \o WrittenBy(p.out, 0)]
            /\ requests' = [requests EXCEPT ![s] = p.requests]
            /\ handlers' =
                 IF p.dispatch
                 THEN Append(handlers,
                             [res |-> NewFCGIResponse(s, rec.requestId),
                              fcgiReq |-> DispatchedRequest(requests[s], rec),
                              pc |-> "running"])
                 ELSE handlers
            /\ stream' = IF rec.requestId \in RequestIds
                          THEN [stream EXCEPT ![s][rec.requestId] =
                                   StreamAfter(@, rec, p.dispatch)]
                          ELSE stream
            /\ wellFormed' = IF rec.requestId \in RequestIds
                              THEN [wellFormed EXCEPT ![s] =
                                       @ /\ KeepsWellFormed(stream[s][rec.requestId], rec)]
                              ELSE wellFormed
    /\ UNCHANGED <<serverState, connections, peers, sock, closedAt, ncalls>>
    /\ UNCHANGED <<serverOptions, errors, callback>>
    /\ UNCHANGED respVars
    /\ UNCHANGED muxVars
    /\ UNCHANGED unitVars
    /\ UNCHANGED <<framing, inbound, file>>

\* Any client: every record of InboundRecords may arrive
Data(s, rec) == Receive(s, rec, MaxRecords) /\ UNCHANGED sent

\* A well-behaved client: only records that keep its stream well-formed
DataWF(s, rec) ==
    /\ KeepsWellFormed(stream[s][rec.requestId], rec)
    /\ Receive(s, rec, MaxRecordsWF)
    /\ UNCHANGED sent

\* The peer closes or resets the connection: the socket is destroyed
PeerClose(s) ==
    /\ ~crashed
    /\ sock[s] = "open"
    /\ sock' = [sock EXCEPT ![s] = "destroyed"]
    /\ closedAt' = [closedAt EXCEPT ![s] = Len(written[s])]
    /\ UNCHANGED <<serverState, connections, peers, requests, written, handlers, crashed,
                   nrecv, ncalls, stream, wellFormed>>
    /\ UNCHANGED <<serverOptions, errors, callback>>
    /\ UNCHANGED respVars
    /\ UNCHANGED muxVars
    /\ UNCHANGED unitVars
    /\ UNCHANGED codecVars

\* socket.on('close')
SocketClose(s) ==
    /\ ~crashed
    /\ sock[s] = "destroyed"
    /\ sock' = [sock EXCEPT ![s] = "closed"]
    /\ connections' = connections \ {s}
    /\ requests' = [requests EXCEPT ![s] = MapClear(@)]
    /\ UNCHANGED <<serverState, peers, written, closedAt, handlers, crashed, nrecv,
                   ncalls, stream, wellFormed>>
    /\ UNCHANGED <<serverOptions, errors, callback>>
    /\ UNCHANGED respVars
    /\ UNCHANGED muxVars
    /\ UNCHANGED unitVars
    /\ UNCHANGED codecVars

\* The socket's 'error' listener: the error is emitted on the server, which
\* has an 'error' listener (index.js, startServer), and the socket is destroyed
SocketError(s) ==
    /\ ~crashed
    /\ sock[s] = "open"
    /\ errors' = Append(errors, s)
    /\ sock' = [sock EXCEPT ![s] = "destroyed"]
    /\ closedAt' = [closedAt EXCEPT ![s] = Len(written[s])]
    /\ UNCHANGED <<serverState, connections, peers, requests, written, handlers, crashed,
                   nrecv, ncalls, stream, wellFormed, serverOptions, callback>>
    /\ UNCHANGED respVars
    /\ UNCHANGED muxVars
    /\ UNCHANGED unitVars
    /\ UNCHANGED codecVars

\* close() that destroys no socket
destroyAll_None(socks, conns) == socks

\* for (const socket of this.connections) socket.destroy()
destroyAll(socks, conns) ==
    [s \in Sockets |-> IF s \in conns /\ socks[s] = "open" THEN "destroyed" ELSE socks[s]]

\* close(callback): every live socket is destroyed, the set is cleared, and
\* the callback is handed to server.close(), or called when there is no server
Close ==
    /\ ~crashed
    /\ serverState # "closed"
    /\ serverState' = "closed"
    /\ sock' = destroyAll(sock, connections)
    /\ closedAt' = [s \in Sockets |->
                      IF sock'[s] # sock[s] THEN Len(written[s]) ELSE closedAt[s]]
    /\ connections' = {}
    /\ callback' = IF serverState = "new"
                   THEN [pending |-> FALSE, runs |-> callback.runs + 1]
                   ELSE [callback EXCEPT !.pending = TRUE]
    /\ UNCHANGED <<peers, requests, written, handlers, crashed, nrecv, ncalls, stream,
                   wellFormed, serverOptions, errors>>
    /\ UNCHANGED respVars
    /\ UNCHANGED muxVars
    /\ UNCHANGED unitVars
    /\ UNCHANGED codecVars

\* net.Server 'close': the server has stopped listening and every connection
\* it accepted has ended; the callback of server.close() runs
ServerClosed ==
    /\ ~crashed
    /\ callback.pending
    /\ \A s \in Sockets : sock[s] \notin {"open", "destroyed"}
    /\ callback' = [pending |-> FALSE, runs |-> callback.runs + 1]
    /\ UNCHANGED <<serverState, connections, peers, sock, requests, written, closedAt,
                   handlers, crashed, nrecv, ncalls, stream, wellFormed, serverOptions, errors>>
    /\ UNCHANGED respVars
    /\ UNCHANGED muxVars
    /\ UNCHANGED unitVars
    /\ UNCHANGED codecVars

----------------------------------------------------------------------------
(* The application handler under createServer's listener.  The handler may  *)
(* await between any two calls, so each call is a step of its own.          *)

\* A response call of invocation i returned call = [res, out]
Returns(i, call, pc) ==
    /\ handlers' = [handlers EXCEPT ![i].res = call.res, ![i].pc = pc]
    /\ written' = [written EXCEPT ![handlers[i].res.socket] =
                      @ \o WrittenBy(call.out, i)]
    /\ UNCHANGED <<serverState, connections, peers, sock, requests, closedAt, crashed,
                   nrecv, stream, wellFormed>>
    /\ UNCHANGED <<serverOptions, errors, callback>>
    /\ UNCHANGED respVars
    /\ UNCHANGED muxVars
    /\ UNCHANGED unitVars
    /\ UNCHANGED codecVars

\* Invocation i is in flight and makes one more call
Running(i) ==
    /\ ~crashed
    /\ i \in 1..Len(handlers)
    /\ handlers[i].pc = "running"
    /\ ncalls < MaxCalls
    /\ ncalls' = ncalls + 1

HandlerWrite(i, chunk) ==
    /\ Running(i)
    /\ Returns(i, [res |-> write(handlers[i].res, chunk), out |-> <<>>], "running")

HandlerEnd(i, data) ==
    /\ Running(i)
    /\ Returns(i, end(handlers[i].res, data), "running")

HandlerSend(i, body) ==
    /\ Running(i)
    /\ Returns(i, send(handlers[i].res, body), "running")

HandlerJson(i, data) ==
    /\ Running(i)
    /\ Returns(i, json(handlers[i].res, data), "running")

HandlerRedirect(i, url, statusCode) ==
    /\ Running(i)
    /\ Returns(i, redirect(handlers[i].res, url, statusCode), "running")

\* A listener that does not end the response after the handler
ensureEnded_Never(call) == call

\* The rest of the listener once the handler has settled:
\* if (!res._finished) res.end()
ensureEnded(call) ==
    IF ~call.res.finished
    THEN LET e == end(call.res, Undefined) IN [res |-> e.res, out |-> call.out \o e.out]
    ELSE call

\* A catch block that leaves the status code as the handler set it
catchError_KeepsStatus(res, message) ==
    IF ~res.headersSent
    THEN send(type(res, "text/plain"), message)
    ELSE [res |-> res, out |-> <<>>]

\* The catch block of the listener
catchError(res, message) ==
    IF ~res.headersSent
    THEN send(type(status(res, 500), "text/plain"), message)
    ELSE [res |-> res, out |-> <<>>]

\* await handler(req, res) completes
HandlerReturn(i) ==
    /\ ~crashed
    /\ i \in 1..Len(handlers)
    /\ handlers[i].pc = "running"
    /\ Returns(i, ensureEnded([res |-> handlers[i].res, out |-> <<>>]), "done")
    /\ UNCHANGED ncalls

\* await handler(req, res) throws or rejects
HandlerThrow(i) ==
    /\ ~crashed
    /\ i \in 1..Len(handlers)
    /\ handlers[i].pc = "running"
    /\ Returns(i, ensureEnded(catchError(handlers[i].res, ErrorMessage)), "done")
    /\ UNCHANGED ncalls

Next ==
    \/ Listen
    \/ \E s \in Sockets : Connect(s)
    \/ \E s \in Sockets, rec \in InboundRecords : Data(s, rec)
    \/ \E s \in Sockets : PeerClose(s)
    \/ \E s \in Sockets : SocketClose(s)
    \/ Close
    \/ ServerClosed
    \/ \E i \in 1..Len(handlers), chunk \in {BufBig} : HandlerWrite(i, chunk)
    \/ \E i \in 1..Len(handlers), data \in {Undefined, StrHello} : HandlerEnd(i, data)
    \/ \E i \in 1..Len(handlers), body \in {BufBig, Obj} : HandlerSend(i, body)
    \/ \E i \in 1..Len(handlers) : HandlerJson(i, Obj)
    \/ \E i \in 1..Len(handlers) : HandlerRedirect(i, "/new", 302)
    \/ \E i \in 1..Len(handlers) : HandlerReturn(i)
    \/ \E i \in 1..Len(handlers) : HandlerThrow(i)

Spec == Init /\ [][Next]_vars

\* The same server behind clients that send only well-formed streams
NextWF ==
    \/ Listen
    \/ \E s \in Sockets : Connect(s)
    \/ \E s \in Sockets, rec \in InboundRecords : DataWF(s, rec)
    \/ \E s \in Sockets : PeerClose(s)
    \/ \E s \in Sockets : SocketClose(s)
    \/ Close
    \/ ServerClosed
    \/ \E i \in 1..Len(handlers), chunk \in {BufBig} : HandlerWrite(i, chunk)
    \/ \E i \in 1..Len(handlers), data \in {Undefined, StrHello} : HandlerEnd(i, data)
    \/ \E i \in 1..Len(handlers), body \in {BufBig, Obj} : HandlerSend(i, body)
    \/ \E i \in 1..Len(handlers) : HandlerJson(i, Obj)
    \/ \E i \in 1..Len(handlers) : HandlerRedirect(i, "/new", 302)
    \/ \E i \in 1..Len(handlers) : HandlerReturn(i)
    \/ \E i \in 1..Len(handlers) : HandlerThrow(i)

SpecWF == Init /\ [][NextWF]_vars

\* new FastCGIServer({ maxConns: 1 }), with every client free to connect
InitConns ==
    /\ serverState = "new"
    /\ connections = {}
    /\ peers = Sockets
    /\ sock = [s \in Sockets |-> "none"]
    /\ requests = [s \in Sockets |-> EmptyMap]
    /\ written = [s \in Sockets |-> <<>>]
    /\ closedAt = [s \in Sockets |-> -1]
    /\ handlers = <<>>
    /\ crashed = FALSE
    /\ nrecv = 0
    /\ ncalls = 0
    /\ stream = [s \in Sockets |-> [id \in RequestIds |-> NoStream]]
    /\ wellFormed = [s \in Sockets |-> TRUE]
    /\ serverOptions = ServerOptions([maxConns |-> 1])
    /\ errors = <<>>
    /\ callback = [pending |-> FALSE, runs |-> 0]
    /\ cgi = [res |-> NewResponse, pc |-> "none"]
    /\ stdout = <<>>
    /\ fcgi = [res |-> NewFCGIResponse("s2", 1), pc |-> "none"]
    /\ sink = <<>>
    /\ thrown = NoError
    /\ nops = 0
    /\ MuxIdle
    /\ UnitIdle
    /\ CodecIdle

\* Clients of several connections: well-formed streams, fewer records
DataConns(s, rec) ==
    /\ KeepsWellFormed(stream[s][rec.requestId], rec)
    /\ Receive(s, rec, MaxRecordsConns)
    /\ UNCHANGED sent

NextConns ==
    \/ Listen
    \/ \E s \in Sockets : Connect(s)
    \/ \E s \in Sockets, rec \in InboundRecords : DataConns(s, rec)
    \/ \E s \in Sockets : PeerClose(s)
    \/ \E s \in Sockets : SocketError(s)
    \/ \E s \in Sockets : SocketClose(s)
    \/ Close
    \/ ServerClosed
    \/ \E i \in 1..Len(handlers), chunk \in {BufBig} : HandlerWrite(i, chunk)
    \/ \E i \in 1..Len(handlers), data \in {Undefined, StrHello} : HandlerEnd(i, data)
    \/ \E i \in 1..Len(handlers), body \in {BufBig, Obj} : HandlerSend(i, body)
    \/ \E i \in 1..Len(handlers) : HandlerJson(i, Obj)
    \/ \E i \in 1..Len(handlers) : HandlerRedirect(i, "/new", 302)
    \/ \E i \in 1..Len(handlers) : HandlerReturn(i)
    \/ \E i \in 1..Len(handlers) : HandlerThrow(i)

SpecConns == InitConns /\ [][NextConns]_vars

----------------------------------------------------------------------------
(* The two response classes under their listeners, call by call: the CGI    *)
(* Response of handle() and an FCGIResponse of createServer()               *)

\* A call of the application on a response: the operation and its arguments
Call(name, code, str, val) == [name |-> name, code |-> code, str |-> str, val |-> val]

PathOptions == [NoOptions EXCEPT !.path = "/"]

FCGICalls ==
    { Call("status", 404, "", Undefined),
      Call("set", 0, "X-A", Undefined),
      Call("type", 0, "text", Undefined),
      Call("cookie", 0, "sid", Undefined),
      Call("write", 0, "", StrHello),
      Call("end", 0, "", Undefined),
      Call("end", 0, "", StrHello),
      Call("send", 0, "", StrHello),
      Call("json", 0, "", Obj),
      Call("redirect", 302, "/new", Undefined) }

\* Response has two operations more
Calls ==
    FCGICalls \cup { Call("removeHeader", 0, "Content-Type", Undefined),
                     Call("clearCookie", 0, "sid", Undefined) }

\* res.<name>(...) on a Response
Response_call(res, c) ==
    CASE c.name = "status" -> Response_status(res, c.code)
      [] c.name = "set" -> Response_set(res, c.str, "1")
      [] c.name = "removeHeader" -> Response_removeHeader(res, c.str)
      [] c.name = "type" -> Response_type(res, c.str)
      [] c.name = "cookie" -> Response_cookie(res, c.str, "1", PathOptions)
      [] c.name = "clearCookie" -> Response_clearCookie(res, c.str, NoOptions)
      [] c.name = "write" -> Response_write(res, c.val)
      [] c.name = "end" -> Response_end(res, c.val)
      [] c.name = "send" -> Response_send(res, c.val)
      [] c.name = "json" -> Response_json(res, c.val)
      [] c.name = "redirect" -> Response_redirect(res, c.str, c.code)

\* res.<name>(...) on an FCGIResponse: [res, out]; no operation throws
FCGIResponse_call(res, c) ==
    CASE c.name = "status" -> [res |-> status(res, c.code), out |-> <<>>]
      [] c.name = "set" -> [res |-> set(res, c.str, "1"), out |-> <<>>]
      [] c.name = "type" -> [res |-> type(res, c.str), out |-> <<>>]
      [] c.name = "cookie" -> [res |-> cookie(res, c.str, "1", PathOptions), out |-> <<>>]
      [] c.name = "write" -> [res |-> write(res, c.val), out |-> <<>>]
      [] c.name = "end" -> end(res, c.val)
      [] c.name = "send" -> send(res, c.val)
      [] c.name = "json" -> json(res, c.val)
      [] c.name = "redirect" -> redirect(res, c.str, c.code)

\* The response objects are constructed and handed to the application
InitResponses ==
    /\ serverState = "new"
    /\ connections = {}
    /\ peers = {}
    /\ sock = [s \in Sockets |-> "none"]
    /\ requests = [s \in Sockets |-> EmptyMap]
    /\ written = [s \in Sockets |-> <<>>]
    /\ closedAt = [s \in Sockets |-> -1]
    /\ handlers = <<>>
    /\ crashed = FALSE
    /\ nrecv = 0
    /\ ncalls = 0
    /\ stream = [s \in Sockets |-> [id \in RequestIds |-> NoStream]]
    /\ wellFormed = [s \in Sockets |-> TRUE]
    /\ serverOptions = ServerOptions(NoServerOptions)
    /\ errors = <<>>
    /\ callback = [pending |-> FALSE, runs |-> 0]
    /\ cgi = [res |-> NewResponse, pc |-> "running"]
    /\ stdout = <<>>
    /\ fcgi = [res |-> NewFCGIResponse("s2", 1), pc |-> "running"]
    /\ sink = <<>>
    /\ thrown = NoError
    /\ nops = 0
    /\ MuxIdle
    /\ UnitIdle
    /\ CodecIdle

\* The CGI callback calls an operation of its Response
CgiCall(c) ==
    /\ cgi.pc = "running"
    /\ nops < MaxOps
    /\ nops' = nops + 1
    /\ LET r == Response_call(cgi.res, c) IN
       /\ cgi' = [cgi EXCEPT !.res = r.res]
       /\ stdout' = stdout \o r.out
       /\ thrown' = r.err
    /\ UNCHANGED <<fcgi, sink>>
    /\ UNCHANGED engineVars
    /\ UNCHANGED muxVars
    /\ UNCHANGED unitVars
    /\ UNCHANGED codecVars

\* The catch block of handle()
Response_catchError(res, message) ==
    IF ~res.headersSent
    THEN LET c == Response_status(res, 500) IN
         IF c.err # NoError THEN c
         ELSE LET t == Response_type(c.res, "text/plain") IN
              IF t.err # NoError THEN t ELSE Response_send(t.res, message)
    ELSE Returned(res, <<>>)

\* handle() that does not end the response after the callback
Response_ensureEnded_Never(r) == r

\* The rest of handle() once the callback has settled:
\* if (!res._finished) res.end()
Response_ensureEnded(r) ==
    IF r.err = NoError /\ ~r.res.finished
    THEN LET e == Response_end(r.res, Undefined)
         IN  [res |-> e.res, out |-> r.out \o e.out, err |-> e.err]
    ELSE r

\* handle(): the callback has settled, normally (failed = FALSE) or not
CgiSettles(failed) ==
    /\ cgi.pc = "running"
    /\ LET r == Response_ensureEnded(IF failed
                                     THEN Response_catchError(cgi.res, ErrorMessage)
                                     ELSE Returned(cgi.res, <<>>))
       IN  /\ cgi' = [res |-> r.res, pc |-> IF failed THEN "failed" ELSE "returned"]
           /\ stdout' = stdout \o r.out
           /\ thrown' = r.err
    /\ UNCHANGED <<fcgi, sink, nops>>
    /\ UNCHANGED engineVars
    /\ UNCHANGED muxVars
    /\ UNCHANGED unitVars
    /\ UNCHANGED codecVars

\* The FastCGI handler calls an operation of its FCGIResponse
FcgiCall(c) ==
    /\ fcgi.pc = "running"
    /\ nops < MaxOps
    /\ nops' = nops + 1
    /\ LET r == FCGIResponse_call(fcgi.res, c) IN
       /\ fcgi' = [fcgi EXCEPT !.res = r.res]
       /\ sink' = sink \o r.out
    /\ thrown' = NoError
    /\ UNCHANGED <<cgi, stdout>>
    /\ UNCHANGED engineVars
    /\ UNCHANGED muxVars
    /\ UNCHANGED unitVars
    /\ UNCHANGED codecVars

\* createServer's listener: the handler has settled
FcgiSettles(failed) ==
    /\ fcgi.pc = "running"
    /\ LET r == ensureEnded(IF failed THEN catchError(fcgi.res, ErrorMessage)
                            ELSE [res |-> fcgi.res, out |-> <<>>])
       IN  /\ fcgi' = [res |-> r.res, pc |-> IF failed THEN "failed" ELSE "returned"]
           /\ sink' = sink \o r.out
    /\ thrown' = NoError
    /\ UNCHANGED <<cgi, stdout, nops>>
    /\ UNCHANGED engineVars
    /\ UNCHANGED muxVars
    /\ UNCHANGED unitVars
    /\ UNCHANGED codecVars

NextResponses ==
    \/ \E c \in Calls : CgiCall(c)
    \/ \E failed \in BOOLEAN : CgiSettles(failed)
    \/ \E c \in FCGICalls : FcgiCall(c)
    \/ \E failed \in BOOLEAN : FcgiSettles(failed)

SpecResponses == InitResponses /\ [][NextResponses]_vars

----------------------------------------------------------------------------
(* sendFile on the CGI Response, among the other calls on both classes *)

\* The files a handler may name: exists says whether stat finds the file
Files ==
    { [name |-> "a.txt", ext |-> ".txt", exists |-> TRUE, size |-> 5],
      [name |-> "none.bin", ext |-> ".bin", exists |-> FALSE, size |-> 0] }

\* mimeTypes[ext] || 'application/octet-stream'
MimeType(ext) ==
    CASE ext \in {".html", ".htm"} -> "text/html"
      [] ext = ".css" -> "text/css"
      [] ext = ".js" -> "application/javascript"
      [] ext = ".json" -> "application/json"
      [] ext = ".png" -> "image/png"
      [] ext \in {".jpg", ".jpeg"} -> "image/jpeg"
      [] ext = ".gif" -> "image/gif"
      [] ext = ".svg" -> "image/svg+xml"
      [] ext = ".pdf" -> "application/pdf"
      [] ext = ".txt" -> "text/plain"
      [] OTHER -> "application/octet-stream"

FileNotFound == [kind |-> "string", val |-> "File not found", len |-> 14, jsonLen |-> 16]

\* catch (_err) { this.status(404).send('File not found'); return this; }
Response_sendFileCatch(res) ==
    LET c == Response_status(res, 404) IN
    IF c.err # NoError THEN c ELSE Response_send(c.res, FileNotFound)

\* The try block of sendFile once stat has settled, up to the Promise it
\* returns: [res, out, err, streaming]
Response_sendFileStat(res, f) ==
    IF ~f.exists
    THEN [call |-> Response_sendFileCatch(res), streaming |-> FALSE]
    ELSE LET t == Response_set(res, "Content-Type", MimeType(f.ext)) IN
         IF t.err # NoError
         THEN [call |-> Response_sendFileCatch(res), streaming |-> FALSE]
         ELSE LET l == Response_set(t.res, "Content-Length", ToString(f.size))
                  h == Response_writeHeaders(l.res)
              IN  [call |-> h, streaming |-> TRUE]

FileCalls ==
    { Call("write", 0, "", StrHello),
      Call("end", 0, "", Undefined),
      Call("end", 0, "", StrHello),
      Call("send", 0, "", StrHello),
      Call("json", 0, "", Obj),
      Call("redirect", 302, "/new", Undefined) }

CgiFileCall(c) == nops < MaxOpsFile /\ CgiCall(c)

FcgiFileCall(c) == nops < MaxOpsFile /\ FcgiCall(c)

\* The callback calls res.sendFile(filePath): the call is suspended at its
\* first await
SendFile(f) ==
    /\ cgi.pc = "running"
    /\ Len(file) < MaxSendFiles
    /\ file' = Append(file, [path |-> f, pc |-> "stat"])
    /\ UNCHANGED <<framing, inbound, sent>>
    /\ UNCHANGED <<engineVars, respVars, muxVars, unitVars>>

\* stat has settled for call k: the headers are set and written and the file
\* is piped, or the catch block answers 404
StatSettles(k) ==
    /\ k \in 1..Len(file)
    /\ file[k].pc = "stat"
    /\ LET r == Response_sendFileStat(cgi.res, file[k].path) IN
       /\ cgi' = [cgi EXCEPT !.res = r.call.res]
       /\ stdout' = stdout \o r.call.out
       /\ thrown' = r.call.err
       /\ file' = [file EXCEPT ![k].pc = IF r.streaming THEN "streaming"
                                         ELSE IF r.call.err # NoError THEN "rejected"
                                         ELSE "resolved"]
    /\ UNCHANGED <<fcgi, sink, nops>>
    /\ UNCHANGED <<framing, inbound, sent>>
    /\ UNCHANGED <<engineVars, muxVars, unitVars>>

\* The read stream of call k has piped the file and emits 'end'
StreamEnds(k) ==
    /\ k \in 1..Len(file)
    /\ file[k].pc = "streaming"
    /\ cgi' = [cgi EXCEPT !.res.finished = TRUE]
    /\ stdout' = IF file[k].path.size = 0 THEN stdout
                 ELSE Append(stdout, [tag |-> "file", val |-> file[k].path.name,
                                      off |-> 0, len |-> file[k].path.size])
    /\ file' = [file EXCEPT ![k].pc = "resolved"]
    /\ UNCHANGED <<fcgi, sink, thrown, nops>>
    /\ UNCHANGED <<framing, inbound, sent>>
    /\ UNCHANGED <<engineVars, muxVars, unitVars>>

\* The read stream of call k emits 'error': the Promise rejects
StreamFails(k) ==
    /\ k \in 1..Len(file)
    /\ file[k].pc = "streaming"
    /\ file' = [file EXCEPT ![k].pc = "rejected"]
    /\ UNCHANGED <<framing, inbound, sent>>
    /\ UNCHANGED <<engineVars, respVars, muxVars, unitVars>>

NextFile ==
    \/ \E c \in FileCalls : CgiFileCall(c)
    \/ \E c \in FileCalls : FcgiFileCall(c)
    \/ \E f \in Files : SendFile(f)
    \/ \E k \in 1..MaxSendFiles : StatSettles(k)
    \/ \E k \in 1..MaxSendFiles : StreamEnds(k)
    \/ \E k \in 1..MaxSendFiles : StreamFails(k)
    \/ \E failed \in BOOLEAN : CgiSettles(failed)
    \/ \E failed \in BOOLEAN : FcgiSettles(failed)

SpecFile == InitResponses /\ [][NextFile]_vars

----------------------------------------------------------------------------
(* send(body) on both response classes, on a fresh response or after a      *)
(* status, a content type or a first chunk                                  *)

SendBodies == {Undefined, Null, StrHello, BufBig, Obj}

SendCalls ==
    { Call("status", 404, "", Undefined),
      Call("type", 0, "text", Undefined),
      Call("write", 0, "", StrHello) }
    \cup { Call("send", 0, "", body) : body \in SendBodies }

CgiSend(c) == nops < MaxOpsSend /\ CgiCall(c)

FcgiSend(c) == nops < MaxOpsSend /\ FcgiCall(c)

NextSend ==
    \/ \E c \in SendCalls : CgiSend(c)
    \/ \E c \in SendCalls : FcgiSend(c)

SpecSend == InitResponses /\ [][NextSend]_vars

----------------------------------------------------------------------------
(* The status line of both response classes, for the codes of the reason    *)
(* tables and two codes outside them                                        *)

StatusCodes == {200, 201, 204, 301, 302, 304, 400, 401, 403, 404, 405, 500, 502, 503,
                299, 418}

StatusCalls ==
    { Call("status", code, "", Undefined) : code \in StatusCodes }
    \cup { Call("end", 0, "", Undefined), Call("write", 0, "", StrHello) }

CgiStatus(c) == nops < MaxOpsStatus /\ CgiCall(c)

FcgiStatus(c) == nops < MaxOpsStatus /\ FcgiCall(c)

NextStatus ==
    \/ \E c \in StatusCalls : CgiStatus(c)
    \/ \E c \in StatusCalls : FcgiStatus(c)

SpecStatus == InitResponses /\ [][NextStatus]_vars

----------------------------------------------------------------------------
(* The CGI module: parseQueryString.  A key is the tuple of its characters, *)
(* a value of the result is [list, items]: a single string is              *)
(* [list |-> FALSE, items |-> <<v>>], an array is [list |-> TRUE, ...].    *)

Single(v) == [list |-> FALSE, items |-> <<v>>]

List(vs) == [list |-> TRUE, items |-> vs]

\* key.endsWith('[]')
EndsWithBrackets(key) ==
    Len(key) >= 2 /\ key[Len(key) - 1] = "[" /\ key[Len(key)] = "]"

\* key.slice(0, -2)
SliceBrackets(key) == SubSeq(key, 1, Len(key) - 2)

\* !result[arrayKey]: the key is absent or holds the empty string
Falsy(result, key) ==
    ~MapHas(result, key) \/ (~result[key].list /\ result[key].items = <<"">>)

\* One turn of the loop: [ok, result]; ok = FALSE is the TypeError of
\* calling push on a string
FoldPair(result, key, value) ==
    IF EndsWithBrackets(key)
    THEN LET arrayKey == SliceBrackets(key)
             r1 == IF Falsy(result, arrayKey) THEN MapSet(result, arrayKey, List(<<>>))
                   ELSE result
         IN  IF r1[arrayKey].list
             THEN [ok |-> TRUE,
                   result |-> MapSet(r1, arrayKey, List(Append(r1[arrayKey].items, value)))]
             ELSE [ok |-> FALSE, result |-> r1]
    ELSE IF MapHas(result, key)
         THEN [ok |-> TRUE,
               result |-> MapSet(result, key, List(Append(result[key].items, value)))]
         ELSE [ok |-> TRUE, result |-> MapSet(result, key, Single(value))]

RECURSIVE FoldPairs(_, _)
FoldPairs(result, pairs) ==
    IF pairs = <<>> THEN [ok |-> TRUE, result |-> result]
    ELSE LET f == FoldPair(result, Head(pairs)[1], Head(pairs)[2])
         IN  IF f.ok THEN FoldPairs(f.result, Tail(pairs)) ELSE f

\* parseQueryString(queryString), on the pairs URLSearchParams yields
parseQueryString(pairs) == FoldPairs(EmptyMap, pairs)

QueryKeys == { <<"a">>, <<"a", "[", "]">>, <<"b">> }

QueryValues == {"", "1", "2"}

RECURSIVE SeqsUpTo(_, _)
SeqsUpTo(S, n) ==
    IF n = 0 THEN {<<>>}
    ELSE LET shorter == SeqsUpTo(S, n - 1)
         IN  shorter \cup { Append(q, x) : q \in shorter, x \in S }

QueryInputs == SeqsUpTo(QueryKeys \X QueryValues, MaxPairs)

\* The engine and the response classes are not in use
EngineIdle ==
    /\ serverState = "new"
    /\ connections = {}
    /\ peers = {}
    /\ sock = [s \in Sockets |-> "none"]
    /\ requests = [s \in Sockets |-> EmptyMap]
    /\ written = [s \in Sockets |-> <<>>]
    /\ closedAt = [s \in Sockets |-> -1]
    /\ handlers = <<>>
    /\ crashed = FALSE
    /\ nrecv = 0
    /\ ncalls = 0
    /\ stream = [s \in Sockets |-> [id \in RequestIds |-> NoStream]]
    /\ wellFormed = [s \in Sockets |-> TRUE]
    /\ serverOptions = ServerOptions(NoServerOptions)
    /\ errors = <<>>
    /\ callback = [pending |-> FALSE, runs |-> 0]
    /\ cgi = [res |-> NewResponse, pc |-> "none"]
    /\ stdout = <<>>
    /\ fcgi = [res |-> NewFCGIResponse("s2", 1), pc |-> "none"]
    /\ sink = <<>>
    /\ thrown = NoError
    /\ nops = 0
    /\ MuxIdle

\* A caller is about to decode a query string
InitQuery ==
    /\ EngineIdle
    /\ CodecIdle
    /\ query \in [input : QueryInputs, out : {NoResult}, pc : {"call"}]
    /\ DeliveryIdle
    /\ ReaderIdle
    /\ RoutingIdle
    /\ ChainIdle

ParseQuery ==
    /\ query.pc = "call"
    /\ query' = [query EXCEPT !.out = parseQueryString(query.input), !.pc = "done"]
    /\ UNCHANGED <<delivery, reader, routing, chain>>
    /\ UNCHANGED <<engineVars, respVars, muxVars, codecVars>>

NextQuery == ParseQuery

SpecQuery == InitQuery /\ [][NextQuery]_vars

----------------------------------------------------------------------------
(* The CGI module: readBody, parseBody, and the request object both         *)
(* transports hand to the handler                                           *)

\* parseInt(s, 10) of a decimal digit
ParseInt(str) == CHOOSE n \in 0..9 : ToString(n) = str

\* contentLength ? parseInt(contentLength, 10) : Infinity
MaxBytes(contentLength) ==
    IF contentLength = "" THEN [inf |-> TRUE, n |-> 0]
    ELSE [inf |-> FALSE, n |-> ParseInt(contentLength)]

RECURSIVE Flatten(_)
Flatten(bufs) == IF bufs = <<>> THEN <<>> ELSE Head(bufs) \o Flatten(Tail(bufs))

\* One turn of the for-await loop of readBody on the state [chunks,
\* bytesRead]: the state afterwards and whether the loop breaks
ReadChunk(r, buffer, maxBytes) ==
    LET bytesRead == r.bytesRead + Len(buffer) IN
    IF maxBytes.inf \/ bytesRead <= maxBytes.n
    THEN [chunks |-> Append(r.chunks, buffer), bytesRead |-> bytesRead, break |-> FALSE]
    ELSE LET excess == bytesRead - maxBytes.n
         IN  [chunks |-> Append(r.chunks, SubSeq(buffer, 1, Len(buffer) - excess)),
              bytesRead |-> bytesRead, break |-> TRUE]

RECURSIVE ReadFrom(_, _, _)
ReadFrom(r, stdin, maxBytes) ==
    IF stdin = <<>> THEN Flatten(r.chunks)
    ELSE LET r1 == ReadChunk(r, Head(stdin), maxBytes)
         IN  IF r1.break THEN Flatten(r1.chunks) ELSE ReadFrom(r1, Tail(stdin), maxBytes)

\* readBody(stdin, contentLength) on a stream that emits the chunks and ends
readBody(stdin, contentLength) ==
    ReadFrom([chunks |-> <<>>, bytesRead |-> 0], stdin, MaxBytes(contentLength))

\* contentType.toLowerCase().split(';')[0].trim()
MediaType(contentType) ==
    CASE contentType = "Application/JSON; charset=utf-8" -> "application/json"
      [] OTHER -> contentType

\* JSON.parse(bodyStr) succeeds: of the bodies of the model, on {}
JsonParses(body) == body = <<123, 125>>

\* parseBody(body, contentType): [raw, parsed]
parseBody(body, contentType) ==
    IF Len(body) = 0 THEN [raw |-> body, parsed |-> NullBody]
    ELSE IF contentType = "" THEN [raw |-> body, parsed |-> [kind |-> "string", val |-> body]]
    ELSE LET mediaType == MediaType(contentType) IN
         CASE mediaType = "application/json" ->
                [raw |-> body,
                 parsed |-> [kind |-> IF JsonParses(body) THEN "json" ELSE "string",
                             val |-> body]]
           [] mediaType = "application/x-www-form-urlencoded" ->
                [raw |-> body, parsed |-> [kind |-> "form", val |-> body]]
           [] mediaType \in {"text/plain", "text/html", "text/xml", "application/xml"} ->
                [raw |-> body, parsed |-> [kind |-> "string", val |-> body]]
           [] OTHER -> [raw |-> body, parsed |-> NullBody]

\* env[name], "" when the variable is absent
EnvGet(env, name) == IF name \in DOMAIN env THEN env[name] ELSE ""

\* String.prototype.toUpperCase on the methods of the model
ToUpperCase(str) ==
    CASE str = "get" -> "GET"
      [] str = "put" -> "PUT"
      [] OTHER -> str

\* parseCGIEnv(env): the fields the body handling reads
parseCGIEnv(env) ==
    [method |-> ToUpperCase(IF EnvGet(env, "REQUEST_METHOD") = "" THEN "GET"
                            ELSE EnvGet(env, "REQUEST_METHOD")),
     contentType |-> EnvGet(env, "CONTENT_TYPE"),
     contentLength |-> EnvGet(env, "CONTENT_LENGTH")]

\* createRequest(env, stdin)
createRequest(env, stdin) ==
    LET request == parseCGIEnv(env) IN
    IF request.method \in {"POST", "PUT", "PATCH"}
    THEN LET b == parseBody(readBody(stdin, request.contentLength), request.contentType)
         IN  [method |-> request.method, rawBody |-> b.raw, body |-> b.parsed]
    ELSE [method |-> request.method, rawBody |-> <<>>, body |-> NullBody]

\* The request _tryHandleRequest builds from a ready FCGIRequest
buildRequest(params, stdin) ==
    LET request == parseCGIEnv(params)
        stdinBuffer == Flatten(stdin)
    IN  IF Len(stdinBuffer) > 0
        THEN LET b == parseBody(stdinBuffer, request.contentType)
             IN  [method |-> request.method, rawBody |-> b.raw, body |-> b.parsed]
        ELSE [method |-> request.method, rawBody |-> <<>>, body |-> NullBody]

Methods == {"", "GET", "get", "POST", "put", "PATCH", "DELETE", "HEAD"}

ContentTypes == {"", "application/json", "Application/JSON; charset=utf-8", "image/png"}

ContentLengths == {"", "1"}

\* The environment with the variables that are not "" set
EnvOf(method, contentType, contentLength) ==
    LET given == [REQUEST_METHOD |-> method, CONTENT_TYPE |-> contentType,
                  CONTENT_LENGTH |-> contentLength]
    IN  [name \in { n \in DOMAIN given : given[n] # "" } |-> given[name]]

Envs == { EnvOf(m, t, l) : m \in Methods, t \in ContentTypes, l \in ContentLengths }

StdinStreams == { <<>>, <<<<120>>>>, <<<<123>>, <<125>>>> }

\* A request arrives, on either transport
InitDelivery ==
    /\ EngineIdle
    /\ CodecIdle
    /\ QueryIdle
    /\ ReaderIdle
    /\ RoutingIdle
    /\ ChainIdle
    /\ delivery \in [env : Envs, stdin : StdinStreams, cgi : {NoRequest},
                      fcgi : {NoRequest}, cgiPc : {"start"}, fcgiPc : {"ready"}]

\* handle(): the CGI process builds its request from the environment and
\* standard input, which ends after its chunks
CgiCreateRequest ==
    /\ delivery.cgiPc = "start"
    /\ delivery' = [delivery EXCEPT !.cgi = createRequest(delivery.env, delivery.stdin),
                                    !.cgiPc = "delivered"]
    /\ UNCHANGED <<query, reader, routing, chain>>
    /\ UNCHANGED <<engineVars, respVars, muxVars, codecVars>>

\* _tryHandleRequest: the FCGIRequest with these params and STDIN contents
\* is ready
FcgiBuildRequest ==
    /\ delivery.fcgiPc = "ready"
    /\ delivery' = [delivery EXCEPT !.fcgi = buildRequest(delivery.env, delivery.stdin),
                                    !.fcgiPc = "delivered"]
    /\ UNCHANGED <<query, reader, routing, chain>>
    /\ UNCHANGED <<engineVars, respVars, muxVars, codecVars>>

NextDelivery == CgiCreateRequest \/ FcgiBuildRequest

SpecDelivery == InitDelivery /\ [][NextDelivery]_vars

----------------------------------------------------------------------------
(* readBody on a stream that emits its chunks one at a time *)

BodyLengths == {"", "1", "2", "3", "4"}

BodyChunks == { <<1>>, <<2, 3>>, <<4, 5, 6>> }

\* readBody(stdin, contentLength) has been called and awaits the stream
InitBody ==
    /\ EngineIdle
    /\ CodecIdle
    /\ QueryIdle
    /\ DeliveryIdle
    /\ RoutingIdle
    /\ ChainIdle
    /\ reader \in [contentLength : BodyLengths, sent : {<<>>}, ended : {FALSE},
                    chunks : {<<>>}, bytesRead : {0}, pc : {"awaiting"}]

\* The stream emits a chunk and the loop of readBody takes it
StdinData(chunk) ==
    /\ reader.pc = "awaiting"
    /\ ~reader.ended
    /\ Len(reader.sent) < MaxChunks
    /\ LET r == ReadChunk(reader, chunk, MaxBytes(reader.contentLength))
       IN  reader' = [reader EXCEPT !.sent = Append(@, chunk),
                                    !.chunks = r.chunks,
                                    !.bytesRead = r.bytesRead,
                                    !.pc = IF r.break THEN "returned" ELSE "awaiting"]
    /\ UNCHANGED <<query, delivery, routing, chain>>
    /\ UNCHANGED <<engineVars, respVars, muxVars, codecVars>>

\* The stream ends: the loop is left and readBody returns
StdinEnd ==
    /\ reader.pc = "awaiting"
    /\ ~reader.ended
    /\ reader' = [reader EXCEPT !.ended = TRUE, !.pc = "returned"]
    /\ UNCHANGED <<query, delivery, routing, chain>>
    /\ UNCHANGED <<engineVars, respVars, muxVars, codecVars>>

\* The stream fails: a premature close is swallowed, any other error is
\* thrown to the caller
StdinError(code) ==
    /\ reader.pc = "awaiting"
    /\ ~reader.ended
    /\ reader' = [reader EXCEPT !.ended = TRUE,
                                !.pc = IF code = "ERR_STREAM_PREMATURE_CLOSE"
                                       THEN "returned" ELSE "threw"]
    /\ UNCHANGED <<query, delivery, routing, chain>>
    /\ UNCHANGED <<engineVars, respVars, muxVars, codecVars>>

NextBody ==
    \/ \E chunk \in BodyChunks : StdinData(chunk)
    \/ StdinEnd
    \/ \E code \in {"ERR_STREAM_PREMATURE_CLOSE", "EIO"} : StdinError(code)

SpecBody == InitBody /\ [][NextBody]_vars

----------------------------------------------------------------------------
(* createRouter.  A path is the tuple of its parts, as split('/') yields    *)
(* them: "/users/42" is <<"", "users", "42">>; the pattern '*' is <<"*">>.  *)

Star == <<"*">>

\* patternPart.startsWith(':'), on the parts of the model
StartsWithColon(part) == part \in {":id"}

\* patternPart.slice(1)
SliceColon(part) == CASE part = ":id" -> "id" [] OTHER -> part

RECURSIVE MatchParts(_, _, _, _)
MatchParts(patternParts, pathParts, i, params) ==
    IF ~(i <= Len(patternParts)) THEN [match |-> TRUE, params |-> params]
    ELSE IF StartsWithColon(patternParts[i])
         THEN MatchParts(patternParts, pathParts, i + 1,
                         MapSet(params, SliceColon(patternParts[i]), pathParts[i]))
         ELSE IF patternParts[i] # pathParts[i]
              THEN [match |-> FALSE, params |-> NoParams]
              ELSE MatchParts(patternParts, pathParts, i + 1, params)

\* matchPath(pattern, path): match = FALSE is null
matchPath(pattern, path) ==
    IF pattern = Star THEN [match |-> TRUE, params |-> NoParams]
    ELSE IF pattern = path THEN [match |-> TRUE, params |-> NoParams]
    ELSE IF Len(pattern) # Len(path) THEN [match |-> FALSE, params |-> NoParams]
    ELSE MatchParts(pattern, path, 1, NoParams)

\* get / post / put / delete / all (path, handler) and use(handler): the
\* route pushed
RouteOf(kind, path) ==
    CASE kind = "get" -> [method |-> "GET", path |-> path]
      [] kind = "post" -> [method |-> "POST", path |-> path]
      [] kind = "put" -> [method |-> "PUT", path |-> path]
      [] kind = "delete" -> [method |-> "DELETE", path |-> path]
      [] kind = "all" -> [method |-> "*", path |-> path]
      [] kind = "use" -> [method |-> "*", path |-> Star]

NotFound == [kind |-> "object", val |-> "notfound", len |-> 0, jsonLen |-> 21]

\* res.status(404).json({ error: 'Not Found' })
SendNotFound(res) ==
    LET c == Response_status(res, 404)
    IN  IF c.err # NoError THEN c ELSE Response_json(c.res, NotFound)

\* handle() that goes on through the routes after a handler has run
RECURSIVE handleFrom_NoReturn(_, _, _, _, _)
handleFrom_NoReturn(routes, req, res, i, invoked) ==
    IF i > Len(routes)
    THEN IF invoked = <<>>
         THEN [req |-> req, invoked |-> invoked, res |-> SendNotFound(res).res]
         ELSE [req |-> req, invoked |-> invoked, res |-> res]
    ELSE IF routes[i].method # "*" /\ routes[i].method # req.method
         THEN handleFrom_NoReturn(routes, req, res, i + 1, invoked)
         ELSE LET match == matchPath(routes[i].path, req.path) IN
              IF match.match
              THEN handleFrom_NoReturn(routes, [req EXCEPT !.params = match.params], res,
                                       i + 1, Append(invoked, i))
              ELSE handleFrom_NoReturn(routes, req, res, i + 1, invoked)

\* The loop of handle() from route i on: [req, invoked, res]
RECURSIVE handleFrom(_, _, _, _, _)
handleFrom(routes, req, res, i, invoked) ==
    IF i > Len(routes)
    THEN [req |-> req, invoked |-> invoked, res |-> SendNotFound(res).res]
    ELSE IF routes[i].method # "*" /\ routes[i].method # req.method
         THEN handleFrom(routes, req, res, i + 1, invoked)
         ELSE LET match == matchPath(routes[i].path, req.path) IN
              IF match.match
              THEN [req |-> [req EXCEPT !.params = match.params],
                    invoked |-> Append(invoked, i), res |-> res]
              ELSE handleFrom(routes, req, res, i + 1, invoked)

RouteKinds == {"get", "post", "put", "delete", "all", "use"}

RoutePaths == { <<"", "users", ":id">>, <<"", "users", "me">> }

ReqMethods == {"GET", "POST", "PUT", "DELETE"}

ReqPaths == { <<"", "users", "me">>, <<"", "users", "42">>, <<"", "posts">> }

\* createRouter()
InitRouter ==
    /\ EngineIdle
    /\ CodecIdle
    /\ QueryIdle
    /\ DeliveryIdle
    /\ ReaderIdle
    /\ ChainIdle
    /\ routing = [routes |-> <<>>, req |-> NoReq, invoked |-> <<>>, res |-> NewResponse,
                  pc |-> "routes"]

\* router.get(path, handler), ..., router.use(handler)
Register(kind, path) ==
    /\ routing.pc = "routes"
    /\ Len(routing.routes) < MaxRoutes
    /\ kind = "use" => path = Star
    /\ kind # "use" => path # Star
    /\ routing' = [routing EXCEPT !.routes = Append(@, RouteOf(kind, path))]
    /\ UNCHANGED <<query, delivery, reader, chain>>
    /\ UNCHANGED <<engineVars, respVars, muxVars, codecVars>>

\* router.handle(req, res), with handlers that leave the response alone
Handle(method, path) ==
    /\ routing.pc = "routes"
    /\ LET h == handleFrom(routing.routes,
                           [method |-> method, path |-> path, params |-> NoParams],
                           routing.res, 1, <<>>)
       IN  routing' = [routing EXCEPT !.req = h.req, !.invoked = h.invoked,
                                      !.res = h.res, !.pc = "handled"]
    /\ UNCHANGED <<query, delivery, reader, chain>>
    /\ UNCHANGED <<engineVars, respVars, muxVars, codecVars>>

NextRouter ==
    \/ \E kind \in RouteKinds, path \in RoutePaths \cup {Star} : Register(kind, path)
    \/ \E method \in ReqMethods, path \in ReqPaths : Handle(method, path)

SpecRouter == InitRouter /\ [][NextRouter]_vars

----------------------------------------------------------------------------
(* compose.  The middlewares are numbered 1..length; each awaits the next() *)
(* it calls, so the ones running form a stack.                              *)

\* next() of one call of the composed handler, on its index: the chain
\* afterwards
next(c) ==
    IF c.index >= c.length THEN c
    ELSE [c EXCEPT !.index = @ + 1,
                   !.stack = Append(@, c.index + 1),
                   !.invoked = Append(@, c.index + 1)]

\* compose(m1, ..., mn)
InitCompose ==
    /\ EngineIdle
    /\ CodecIdle
    /\ QueryIdle
    /\ DeliveryIdle
    /\ ReaderIdle
    /\ RoutingIdle
    /\ chain \in [length : 1..MaxMiddlewares, index : {0}, stack : {<<>>},
                   invoked : {<<>>}, nexts : {NoNexts}, returned : {{}}, calls : {0},
                   pc : {"idle"}]

\* The composed handler is called: let index = 0; await next()
CallComposed ==
    /\ chain.pc = "idle"
    /\ chain.calls < MaxComposedCalls
    /\ LET c == next([chain EXCEPT !.index = 0, !.invoked = <<>>, !.nexts = NoNexts,
                                   !.returned = {}, !.calls = @ + 1])
       IN  chain' = [c EXCEPT !.pc = IF c.stack = <<>> THEN "idle" ELSE "running"]
    /\ UNCHANGED <<query, delivery, reader, routing>>
    /\ UNCHANGED <<engineVars, respVars, muxVars, codecVars>>

\* The innermost running middleware calls next() and awaits it
MiddlewareCallsNext ==
    /\ chain.pc = "running"
    /\ LET k == chain.stack[Len(chain.stack)] IN
       /\ chain.nexts[k] < MaxNexts
       /\ chain' = next([chain EXCEPT !.nexts[k] = @ + 1])
    /\ UNCHANGED <<query, delivery, reader, routing>>
    /\ UNCHANGED <<engineVars, respVars, muxVars, codecVars>>

\* The innermost running middleware returns; the composed handler settles
\* when the first one has returned
MiddlewareReturns ==
    /\ chain.pc = "running"
    /\ LET k == chain.stack[Len(chain.stack)]
           rest == SubSeq(chain.stack, 1, Len(chain.stack) - 1)
       IN  chain' = [chain EXCEPT !.stack = rest,
                                  !.returned = @ \cup {k},
                                  !.pc = IF rest = <<>> THEN "idle" ELSE "running"]
    /\ UNCHANGED <<query, delivery, reader, routing>>
    /\ UNCHANGED <<engineVars, respVars, muxVars, codecVars>>

NextCompose == CallComposed \/ MiddlewareCallsNext \/ MiddlewareReturns

SpecCompose == InitCompose /\ [][NextCompose]_vars

----------------------------------------------------------------------------
(* buildStreamRecord on payloads around the chunk size *)

SegmentLengths == {1, 7, 8, 65535, 65536}

\* The payloads of n Buffers, the k-th being Buffer k
RECURSIVE PayloadsOf(_)
PayloadsOf(n) ==
    IF n = 0 THEN {<<>>}
    ELSE { Append(d, [tag |-> "buffer", val |-> n, off |-> 0, len |-> l]) :
             d \in PayloadsOf(n - 1), l \in SegmentLengths }

Payloads == UNION { PayloadsOf(n) : n \in 0..MaxSegments }

\* A caller is about to frame a payload
InitFraming ==
    /\ EngineIdle
    /\ UnitIdle
    /\ InboundIdle
    /\ FileIdle
    /\ SentIdle
    /\ framing \in [data : Payloads, out : {<<>>}, pc : {"call"}]

BuildStream ==
    /\ framing.pc = "call"
    /\ framing' = [framing EXCEPT !.out = buildStreamRecord(FCGI_STDOUT, 1, framing.data),
                                  !.pc = "done"]
    /\ UNCHANGED <<inbound, file, sent>>
    /\ UNCHANGED <<engineVars, respVars, muxVars, unitVars>>

NextFraming == BuildStream

SpecFraming == InitFraming /\ [][NextFraming]_vars

----------------------------------------------------------------------------
(* The 'data' listener on bytes: the inbound buffer and the framing loop *)

\* buffer.readUInt16BE(offset)
ReadUInt16BE(buffer, offset) == ByteAt(buffer, offset) * 256 + ByteAt(buffer, offset + 1)

\* parseHeader(buffer), on a buffer of at least FCGI_HEADER_LEN bytes
parseHeader(buffer) ==
    [version |-> ByteAt(buffer, 0), type |-> ByteAt(buffer, 1),
     requestId |-> ReadUInt16BE(buffer, 2), contentLength |-> ReadUInt16BE(buffer, 4),
     paddingLength |-> ByteAt(buffer, 6), reserved |-> ByteAt(buffer, 7)]

\* The loop that frames one record at most
FrameLoop_Once(buffer, processed) ==
    IF ~(Len(buffer) >= FCGI_HEADER_LEN) THEN [buffer |-> buffer, processed |-> processed]
    ELSE LET header == parseHeader(buffer)
             totalLength == FCGI_HEADER_LEN + header.contentLength + header.paddingLength
         IN  IF Len(buffer) < totalLength
             THEN [buffer |-> buffer, processed |-> processed]
             ELSE [buffer |-> BufSlice(buffer, totalLength, Len(buffer)),
                   processed |->
                       Append(processed,
                              [header |-> header,
                               content |-> BufSlice(buffer, FCGI_HEADER_LEN,
                                                    FCGI_HEADER_LEN + header.contentLength)])]

\* while (buffer.length >= FCGI_HEADER_LEN) { ... }: the buffer left and the
\* records handed to _processRecord
RECURSIVE FrameLoop(_, _)
FrameLoop(buffer, processed) ==
    IF ~(Len(buffer) >= FCGI_HEADER_LEN) THEN [buffer |-> buffer, processed |-> processed]
    ELSE LET header == parseHeader(buffer)
             totalLength == FCGI_HEADER_LEN + header.contentLength + header.paddingLength
         IN  IF Len(buffer) < totalLength
             THEN [buffer |-> buffer, processed |-> processed]
             ELSE FrameLoop(BufSlice(buffer, totalLength, Len(buffer)),
                            Append(processed,
                                   [header |-> header,
                                    content |-> BufSlice(buffer, FCGI_HEADER_LEN,
                                                         FCGI_HEADER_LEN + header.contentLength)]))

\* The records of a client: type, request id, content, padding length
WireRecords ==
    { [type |-> FCGI_BEGIN_REQUEST, requestId |-> 1,
       content |-> <<0, 1, 1, 0, 0, 0, 0, 0>>, paddingLength |-> 0],
      [type |-> FCGI_PARAMS, requestId |-> 1, content |-> <<>>, paddingLength |-> 0],
      [type |-> FCGI_STDIN, requestId |-> 258, content |-> <<120>>, paddingLength |-> 7],
      [type |-> FCGI_STDIN, requestId |-> 2, content |-> <<120, 121>>, paddingLength |-> 0] }

\* The bytes of a record on the wire
Encode(r) ==
    <<1, r.type, r.requestId \div 256, r.requestId % 256,
      Len(r.content) \div 256, Len(r.content) % 256, r.paddingLength, 0>>
    \o r.content \o [k \in 1..r.paddingLength |-> 0]

RECURSIVE EncodeAll(_)
EncodeAll(rs) == IF rs = <<>> THEN <<>> ELSE Encode(Head(rs)) \o EncodeAll(Tail(rs))

\* A connection was accepted and its client is about to send a stream
InitInbound ==
    /\ EngineIdle
    /\ UnitIdle
    /\ FramingIdle
    /\ FileIdle
    /\ SentIdle
    /\ \E rs \in SeqsUpTo(WireRecords, MaxFrames) :
          inbound = [records |-> rs, rest |-> EncodeAll(rs), received |-> <<>>,
                     buffer |-> <<>>, processed |-> <<>>]

\* socket.on('data'): the next n bytes of the stream arrive as one chunk
DataChunk(n) ==
    /\ n <= Len(inbound.rest)
    /\ LET chunk == SubSeq(inbound.rest, 1, n)
           f == FrameLoop(inbound.buffer \o chunk, inbound.processed)
       IN  inbound' = [inbound EXCEPT !.rest = SubSeq(@, n + 1, Len(@)),
                                      !.received = @ \o chunk,
                                      !.buffer = f.buffer,
                                      !.processed = f.processed]
    /\ UNCHANGED <<framing, file, sent>>
    /\ UNCHANGED <<engineVars, respVars, muxVars, unitVars>>

NextInbound == \E n \in 1..(MaxFrames * 16) : DataChunk(n)

SpecInbound == InitInbound /\ [][NextInbound]_vars

----------------------------------------------------------------------------
(* Two connections, two requests on each, every one with data of its own *)

\* The byte that tells the data of (connection, request id) from the others'
Mark(s, id) == (IF s = "s1" THEN 100 ELSE 200) + id

\* What the client of connection s sends: requests that keep the connection,
\* one parameter A or B whose value is the mark, one byte of standard input
IsolationRecords(s) ==
    [version : {FCGI_VERSION_1}, type : {FCGI_BEGIN_REQUEST}, requestId : RequestIds,
     content : {<<0, 1, 1, 0, 0, 0, 0, 0>>}]
    \cup UNION { [version : {FCGI_VERSION_1}, type : {FCGI_PARAMS}, requestId : {id},
                  content : {<<>>, <<1, 1, 65, Mark(s, id)>>}] : id \in RequestIds }
    \cup UNION { [version : {FCGI_VERSION_1}, type : {FCGI_STDIN}, requestId : {id},
                  content : {<<>>, <<Mark(s, id)>>}] : id \in RequestIds }

DataIsolation(s, rec) ==
    /\ KeepsWellFormed(stream[s][rec.requestId], rec)
    /\ Receive(s, rec, MaxRecordsIsolation)
    /\ sent' = [sent EXCEPT ![s][rec.requestId] = SentAfter(@, rec)]

NextIsolation ==
    \/ Listen
    \/ \E s \in Sockets : Connect(s)
    \/ \E s \in Sockets : \E rec \in IsolationRecords(s) : DataIsolation(s, rec)
    \/ \E i \in 1..Len(handlers) : HandlerReturn(i)

SpecIsolation == InitConns /\ [][NextIsolation]_vars

\* A client that may begin a request id again at any time, and send data for
\* ids it has not begun: the records of the first connection in any order, and
\* a second parameter B
RebeginRecords ==
    IsolationRecords("s1")
    \cup [version : {FCGI_VERSION_1}, type : {FCGI_PARAMS}, requestId : {1},
          content : {<<1, 1, 66, Mark("s1", 1)>>}]

DataRebegin(s, rec) ==
    /\ Receive(s, rec, MaxRecordsRebegin)
    /\ sent' = [sent EXCEPT ![s][rec.requestId] = SentAfter(@, rec)]

NextRebegin ==
    \/ Listen
    \/ \E s \in Sockets : Connect(s)
    \/ \E s \in Sockets : \E rec \in RebeginRecords : DataRebegin(s, rec)
    \/ \E i \in 1..Len(handlers) : HandlerReturn(i)

SpecRebegin == Init /\ [][NextRebegin]_vars

----------------------------------------------------------------------------
(* One connection that multiplexes requests, behind a peer that may read    *)
(* slowly: handlers run concurrently and call write/end in any interleaving *)

\* The records of a client that begins requests with keep-connection set and
\* sends empty PARAMS and STDIN streams
MuxRecords ==
    [version : {FCGI_VERSION_1}, type : {FCGI_BEGIN_REQUEST}, requestId : RequestIds,
     content : {<<0, 1, 1, 0, 0, 0, 0, 0>>}]
    \cup [version : {FCGI_VERSION_1}, type : {FCGI_PARAMS, FCGI_STDIN},
          requestId : RequestIds, content : {<<>>}]

MuxCalls ==
    { Call("write", 0, "", StrHello),
      Call("write", 0, "", BufBig),
      Call("end", 0, "", Undefined),
      Call("end", 0, "", StrHello) }

DataMux(s, rec) ==
    /\ KeepsWellFormed(stream[s][rec.requestId], rec)
    /\ Receive(s, rec, MaxRecordsMux)
    /\ UNCHANGED sent

\* The chunks of invocation i so far, with the one this call passes: write and
\* end take a string or a Buffer, and a finished response takes nothing more
PassedAfter(i, c) ==
    LET before == IF i \in DOMAIN passed THEN passed[i] ELSE <<>>
    IN  IF /\ c.name \in {"write", "end"}
           /\ c.val.kind \in {"string", "buffer"}
           /\ ~handlers[i].res.finished
        THEN Append(before, ChunkOf(c.val))
        ELSE before

\* socket.write(...) of out on socket s returns false when the peer has not
\* taken the bytes: the buffer is full from then on, until 'drain'
WritesTo(s, out, i) ==
    /\ written' = [written EXCEPT ![s] = @ \o WrittenBy(out, i)]
    /\ IF out = <<>> THEN full' = full
       ELSE \E f \in BOOLEAN : full' = [full EXCEPT ![s] = @ \/ f]

\* Invocation i calls write or end on its response
MuxCall(i, c) ==
    /\ ~crashed
    /\ i \in 1..Len(handlers)
    /\ handlers[i].pc = "running"
    /\ ncalls < MaxCallsMux
    /\ ncalls' = ncalls + 1
    /\ LET r == FCGIResponse_call(handlers[i].res, c) IN
       /\ handlers' = [handlers EXCEPT ![i].res = r.res]
       /\ WritesTo(handlers[i].res.socket, r.out, i)
    /\ passed' = MapSet(passed, i, PassedAfter(i, c))
    /\ UNCHANGED <<serverState, connections, peers, sock, requests, closedAt, crashed,
                   nrecv, stream, wellFormed, serverOptions, errors, callback>>
    /\ UNCHANGED respVars
    /\ UNCHANGED unitVars
    /\ UNCHANGED codecVars

\* The handler of invocation i returns; the listener ends the response
MuxReturn(i) ==
    /\ ~crashed
    /\ i \in 1..Len(handlers)
    /\ handlers[i].pc = "running"
    /\ LET r == ensureEnded([res |-> handlers[i].res, out |-> <<>>]) IN
       /\ handlers' = [handlers EXCEPT ![i].res = r.res, ![i].pc = "done"]
       /\ WritesTo(handlers[i].res.socket, r.out, i)
    /\ UNCHANGED <<serverState, connections, peers, sock, requests, closedAt, crashed,
                   nrecv, ncalls, stream, wellFormed, serverOptions, errors, callback>>
    /\ UNCHANGED passed
    /\ UNCHANGED respVars
    /\ UNCHANGED unitVars
    /\ UNCHANGED codecVars

\* The socket emits 'drain': the peer has taken what was buffered
SocketDrains(s) ==
    /\ ~crashed
    /\ sock[s] = "open"
    /\ full[s]
    /\ full' = [full EXCEPT ![s] = FALSE]
    /\ UNCHANGED passed
    /\ UNCHANGED engineVars
    /\ UNCHANGED respVars
    /\ UNCHANGED unitVars
    /\ UNCHANGED codecVars

NextMux ==
    \/ Listen
    \/ \E s \in Sockets : Connect(s)
    \/ \E s \in Sockets, rec \in MuxRecords : DataMux(s, rec)
    \/ \E i \in 1..Len(handlers), c \in MuxCalls : MuxCall(i, c)
    \/ \E i \in 1..Len(handlers) : MuxReturn(i)
    \/ \E s \in Sockets : SocketDrains(s)

SpecMux == Init /\ [][NextMux]_vars

----------------------------------------------------------------------------
(* Management records: a client that queries the server's capabilities *)

NameOther == <<88>>

\* The variable names a client asks for, in the order it sends them
Queries ==
    { <<>>, <<NameMaxConns>>, <<NameMaxReqs>>, <<NameMpxsConns>>, <<NameOther>>,
      <<NameMpxsConns, NameMaxConns>>,
      <<NameMaxConns, NameMaxReqs, NameMpxsConns>>,
      <<NameMaxReqs, NameOther, NameMaxConns, NameMpxsConns>>,
      <<NameMaxConns, NameMaxConns>> }

\* The content of a GET_VALUES record: each name with an empty value
RECURSIVE QueryContent(_)
QueryContent(q) ==
    IF q = <<>> THEN <<>>
    ELSE <<Len(Head(q)), 0>> \o Head(q) \o QueryContent(Tail(q))

GetValuesRecord(id, q) ==
    [version |-> 1, type |-> FCGI_GET_VALUES, requestId |-> id,
     content |-> QueryContent(q)]

MgmtRecords ==
    { GetValuesRecord(id, q) : id \in {0, 1}, q \in Queries }
    \cup [version : {1}, type : {FCGI_BEGIN_REQUEST}, requestId : {1},
          content : {<<0, 1, 1, 0, 0, 0, 0, 0>>}]
    \cup [version : {1}, type : {FCGI_PARAMS}, requestId : {1},
          content : {<<>>, <<1, 1, 65, 66>>}]

\* new FastCGIServer() with the defaults, or with both limits configured
InitMgmt ==
    /\ serverState = "new"
    /\ connections = {}
    /\ peers = {"s1"}
    /\ sock = [s \in Sockets |-> "none"]
    /\ requests = [s \in Sockets |-> EmptyMap]
    /\ written = [s \in Sockets |-> <<>>]
    /\ closedAt = [s \in Sockets |-> -1]
    /\ handlers = <<>>
    /\ crashed = FALSE
    /\ nrecv = 0
    /\ ncalls = 0
    /\ stream = [s \in Sockets |-> [id \in RequestIds |-> NoStream]]
    /\ wellFormed = [s \in Sockets |-> TRUE]
    /\ serverOptions \in { ServerOptions(NoServerOptions),
                           ServerOptions([maxConns |-> 7, maxReqs |-> 12]) }
    /\ errors = <<>>
    /\ callback = [pending |-> FALSE, runs |-> 0]
    /\ cgi = [res |-> NewResponse, pc |-> "none"]
    /\ stdout = <<>>
    /\ fcgi = [res |-> NewFCGIResponse("s2", 1), pc |-> "none"]
    /\ sink = <<>>
    /\ thrown = NoError
    /\ nops = 0
    /\ MuxIdle
    /\ UnitIdle
    /\ CodecIdle

DataMgmt(s, rec) ==
    /\ rec.requestId \in RequestIds => KeepsWellFormed(stream[s][rec.requestId], rec)
    /\ Receive(s, rec, MaxRecordsMgmt)
    /\ UNCHANGED sent

NextMgmt ==
    \/ Listen
    \/ \E s \in Sockets : Connect(s)
    \/ \E s \in Sockets, rec \in MgmtRecords : DataMgmt(s, rec)

SpecMgmt == InitMgmt /\ [][NextMgmt]_vars

----------------------------------------------------------------------------
(* Properties *)

HandlerSet == 1..Len(handlers)

SocketOf(i) == handlers[i].res.socket

IdOf(i) == handlers[i].res.requestId

IsStdout(r, id) == r.header.type = FCGI_STDOUT /\ r.header.requestId = id

IsEndRequest(r, id) == r.header.type = FCGI_END_REQUEST /\ r.header.requestId = id

\* The records invocation i handed to its socket, in order
RecordsBy(i) == SelectSeq(written[SocketOf(i)], LAMBDA r : r.by = i)

\* Number of 'request' events for request id on socket s
DispatchedFor(s, id) ==
    Cardinality({i \in HandlerSet : SocketOf(i) = s /\ IdOf(i) = id})

\* An END_REQUEST for id left socket s before the socket was destroyed
EmittedEnd(s, id) ==
    \E k \in 1..Len(written[s]) :
        /\ IsEndRequest(written[s][k], id)
        /\ (closedAt[s] = -1 \/ k <= closedAt[s])

\* This step handed exactly one record to socket s: an END_REQUEST for id
\* with the given protocol status
RepliesEndRequest(s, id, protocolStatus) ==
    /\ Len(written'[s]) = Len(written[s]) + 1
    /\ LET r == written'[s][Len(written'[s])] IN
       /\ IsEndRequest(r, id)
       /\ r.content[2].val = protocolStatus

\* This step emitted a 'request' event
Dispatches == Len(handlers') > Len(handlers)

\* C1: a Pending Request is handed to the application at most once per
\* BEGIN_REQUEST, and only in a step after which both a zero-length PARAMS
\* and a zero-length STDIN record have arrived for it since that BEGIN_REQUEST,
\* in whichever order.
C1_DispatchedOnceWhenBothTerminated ==
    [][Dispatches =>
         /\ Len(handlers') = Len(handlers) + 1
         /\ LET h == handlers'[Len(handlers')]
                st == stream'[h.res.socket][h.res.requestId]
            IN  /\ st.begun > 0
                /\ st.dispatched = 1
                /\ st.termP
                /\ st.termS]_vars

\* A request with parameters was dispatched, once, after both terminators
C1_Witness ==
    \E i \in HandlerSet :
        /\ stream[SocketOf(i)][IdOf(i)].dispatched = 1
        /\ stream[SocketOf(i)][IdOf(i)].termP
        /\ stream[SocketOf(i)][IdOf(i)].termS
        /\ handlers[i].fcgiReq.params # EmptyMap

EnvelopeOk(recs, id) ==
    LET n == Len(recs) IN
    /\ n >= 3
    /\ \A k \in 1..(n - 2) :
          /\ IsStdout(recs[k], id)
          /\ recs[k].header.contentLength \in 1..65535
          /\ DataLen(recs[k].content) = recs[k].header.contentLength
    /\ recs[1].content[1].tag = "hdr"
    /\ recs[1].content[1].off = 0
    /\ IsStdout(recs[n - 1], id)
    /\ recs[n - 1].header.contentLength = 0
    /\ recs[n - 1].content = <<>>
    /\ IsEndRequest(recs[n], id)
    /\ recs[n].content[1].val = 0
    /\ recs[n].content[2].val = 0

\* C3: the records written for a response are none until it is ended, and from
\* then on exactly: one or more STDOUT records with content (at most 65,535
\* bytes each, the header block first), one STDOUT record of content length 0,
\* one END_REQUEST with app-status 0 and protocol-status 0, and nothing after
\* it, whatever calls the handler makes.
C3_ResponseEnvelope ==
    \A i \in HandlerSet :
        IF handlers[i].res.finished
        THEN EnvelopeOk(RecordsBy(i), IdOf(i))
        ELSE RecordsBy(i) = <<>>

\* A response whose body was chunked into two STDOUT records was ended, and
\* the handler wrote again afterwards
C3_Witness ==
    \E i \in HandlerSet :
        /\ handlers[i].res.finished
        /\ Len(RecordsBy(i)) = 4
        /\ Len(handlers[i].res.buffer) = 3

C5_AbortRepliesEndRequest ==
    [][\A s \in Sockets, rec \in InboundRecords :
          (rec.type = FCGI_ABORT_REQUEST /\ Data(s, rec)) =>
              /\ ~MapHas(requests'[s], rec.requestId)
              /\ RepliesEndRequest(s, rec.requestId, FCGI_REQUEST_COMPLETE)
              /\ written'[s][Len(written'[s])].content[1].val = 0]_vars

\* C6: no 'request' event is emitted for a request id whose stream was
\* aborted since its latest BEGIN_REQUEST.
C6_NoDispatchAfterAbort ==
    [][Dispatches =>
         LET h == handlers'[Len(handlers')]
         IN  ~stream'[h.res.socket][h.res.requestId].aborted]_vars

\* A request was aborted before it was complete, both terminators arrived
\* for its id without a new BEGIN_REQUEST, and nothing was dispatched
C6_Witness ==
    \E s \in Sockets, id \in RequestIds :
        /\ stream[s][id].begun > 0
        /\ stream[s][id].aborted
        /\ stream[s][id].termP
        /\ stream[s][id].termS
        /\ stream[s][id].dispatched = 0
        /\ DispatchedFor(s, id) = 0

\* C7: a BEGIN_REQUEST whose role is not RESPONDER is answered with
\* END_REQUEST protocol-status UNKNOWN_ROLE and leaves no pending entry, and
\* no 'request' event is ever emitted for a request of another role.
C7_UnknownRoleRejected ==
    [][/\ \A s \in Sockets, rec \in InboundRecords :
             (/\ rec.type = FCGI_BEGIN_REQUEST
              /\ rec.content[1] * 256 + rec.content[2] # FCGI_RESPONDER
              /\ Data(s, rec)) =>
                 /\ ~MapHas(requests'[s], rec.requestId)
                 /\ RepliesEndRequest(s, rec.requestId, FCGI_UNKNOWN_ROLE)
       /\ Dispatches => handlers'[Len(handlers')].fcgiReq.role = FCGI_RESPONDER]_vars

\* C8: a PARAMS or STDIN record for a request id with no Pending Request on
\* the connection closes that connection.
C8_UnexpectedRecordClosesConnection ==
    [][\A s \in Sockets, rec \in InboundRecords :
          (/\ rec.type \in {FCGI_PARAMS, FCGI_STDIN}
           /\ ~MapHas(requests[s], rec.requestId)
           /\ Data(s, rec)) => sock'[s] # "open"]_vars

\* C9: a record whose version is not 1 reaches no Request Assembler and its
\* connection is dropped.
C9_BadVersionDropsConnection ==
    [][\A s \in Sockets, rec \in InboundRecords :
          (rec.version # FCGI_VERSION_1 /\ Data(s, rec)) =>
              /\ requests' = requests
              /\ handlers' = handlers
              /\ sock'[s] # "open"]_vars

\* C10: a PARAMS record with truncated name-value content, for a request that
\* is pending, removes that Pending Request only, is answered with END_REQUEST
\* app-status 1, merges nothing, dispatches nothing, and the server keeps
\* running.
C10_TruncatedParamsEndsRequest ==
    [][\A s \in Sockets, rec \in InboundRecords :
          (/\ rec.type = FCGI_PARAMS
           /\ Truncated(rec.content)
           /\ MapHas(requests[s], rec.requestId)
           /\ Data(s, rec)) =>
              /\ ~crashed'
              /\ requests'[s] = MapDelete(requests[s], rec.requestId)
              /\ handlers' = handlers
              /\ RepliesEndRequest(s, rec.requestId, FCGI_REQUEST_COMPLETE)
              /\ written'[s][Len(written'[s])].content[1].val = 1]_vars

\* Every response dispatched on socket s has ended and no request is pending
Quiet(s) ==
    /\ requests[s] = EmptyMap
    /\ \A j \in HandlerSet : SocketOf(j) = s => handlers[j].res.finished

\* C11: once the response of a dispatched request has ended and no other
\* request is pending or unanswered on its connection, the socket is no longer
\* open if the request's BEGIN_REQUEST had the keep-connection flag clear.
C11_ClosesUnlessKeepConn ==
    \A i \in HandlerSet :
        (/\ handlers[i].pc = "done"
         /\ Quiet(SocketOf(i))
         /\ ~handlers[i].fcgiReq.keepConn) => sock[SocketOf(i)] # "open"

----------------------------------------------------------------------------
(* Properties of the response classes *)

WriteAfterFinished == "Cannot write after response finished"

\* The value of header name, "" when it is not set
HeaderValue(headers, name) ==
    IF \E i \in 1..Len(headers) : headers[i][1] = name
    THEN headers[CHOOSE i \in 1..Len(headers) : headers[i][1] = name][2]
    ELSE ""

EmptyStdouts(recs) ==
    Cardinality({k \in 1..Len(recs) :
                    recs[k].header.type = FCGI_STDOUT /\ recs[k].header.contentLength = 0})

EndRequests(recs) ==
    Cardinality({k \in 1..Len(recs) : recs[k].header.type = FCGI_END_REQUEST})

\* C12: once a response is finished, a further end (with or without a chunk)
\* or write hands no byte to the output sink: standard output for Response,
\* the socket for FCGIResponse.
C12_EndIdempotent ==
    [][/\ \A c \in Calls :
             (c.name \in {"end", "write"} /\ cgi.res.finished /\ CgiCall(c))
                 => stdout' = stdout
       /\ \A c \in FCGICalls :
             (c.name \in {"end", "write"} /\ fcgi.res.finished /\ FcgiCall(c))
                 => sink' = sink]_vars

\* Both responses were ended and then written to: the Response refused, the
\* FCGIResponse buffered the chunk, and neither sink grew
C12_Witness ==
    /\ cgi.res.finished
    /\ thrown = WriteAfterFinished
    /\ Len(stdout) = 1
    /\ fcgi.res.finished
    /\ Len(fcgi.res.buffer) = 2
    /\ Len(sink) = 3

\* C13: on both response classes a write after end throws to the caller and
\* leaves the response object and the emitted bytes as they were.
C13_WriteAfterEndFails ==
    [][/\ \A c \in Calls :
             (c.name = "write" /\ cgi.res.finished /\ CgiCall(c))
                 => /\ thrown' = WriteAfterFinished
                    /\ cgi'.res = cgi.res
                    /\ stdout' = stdout
       /\ \A c \in FCGICalls :
             (c.name = "write" /\ fcgi.res.finished /\ FcgiCall(c))
                 => /\ thrown' # NoError
                    /\ fcgi'.res = fcgi.res
                    /\ sink' = sink]_vars

\* C14: on both response classes status, set/header and cookie called after
\* the header block was serialized throw to the caller and leave the status
\* code, the headers and the cookies as they were.
C14_HeadersSentFails ==
    [][/\ \A c \in Calls :
             (c.name \in {"status", "set", "cookie"} /\ cgi.res.headersSent /\ CgiCall(c))
                 => /\ thrown' # NoError
                    /\ cgi'.res = cgi.res
       /\ \A c \in FCGICalls :
             (c.name \in {"status", "set", "cookie"} /\ fcgi.res.headersSent /\ FcgiCall(c))
                 => /\ thrown' # NoError
                    /\ fcgi'.res.statusCode = fcgi.res.statusCode
                    /\ fcgi'.res.headers = fcgi.res.headers
                    /\ fcgi'.res.cookies = fcgi.res.cookies]_vars

\* C15: while headers-sent is true no operation of a response changes its
\* status code, header map or cookie list, and once finished is true no
\* operation changes any of its fields.
C15_FrozenAfterHeaders ==
    [][/\ \A c \in Calls : CgiCall(c) =>
             /\ cgi.res.headersSent =>
                   /\ cgi'.res.statusCode = cgi.res.statusCode
                   /\ cgi'.res.headers = cgi.res.headers
                   /\ cgi'.res.cookies = cgi.res.cookies
             /\ cgi.res.finished => cgi'.res = cgi.res
       /\ \A c \in FCGICalls : FcgiCall(c) =>
             /\ fcgi.res.headersSent =>
                   /\ fcgi'.res.statusCode = fcgi.res.statusCode
                   /\ fcgi'.res.headers = fcgi.res.headers
                   /\ fcgi'.res.cookies = fcgi.res.cookies
             /\ fcgi.res.finished => fcgi'.res = fcgi.res]_vars

\* The header block and body of the response to a failed callback
IsErrorHeader(chunk) ==
    /\ chunk.tag = "hdr"
    /\ chunk.val.statusCode = 500
    /\ HeaderValue(chunk.val.headers, "Content-Type") = "text/plain"

IsErrorBody(chunk) == chunk.tag = "string" /\ chunk.val = ErrorMessage.val

----------------------------------------------------------------------------
(* Properties of the server over several connections *)

\* C18: close(callback) leaves no connection open and the live set empty, no
\* connection is accepted afterwards, and the callback runs at most once,
\* only when every connection has closed, at once when the server was never
\* started, and otherwise stays due until it has run.
C18_CloseShutsDown ==
    [][/\ Close => /\ connections' = {}
                   /\ \A s \in Sockets : sock'[s] # "open"
                   /\ serverState = "new" => callback'.runs = 1
       /\ serverState = "closed" =>
             /\ connections' = {}
             /\ \A s \in Sockets : sock[s] = "none" => sock'[s] = "none"
             /\ \A s \in Sockets : sock'[s] # "open"
       /\ callback'.runs <= 1
       /\ callback'.runs = 1 => \A s \in Sockets : sock'[s] \in {"none", "closed"}
       /\ serverState' = "closed" => (callback'.runs = 1) # callback'.pending]_vars

\* The server was closed with two connections open, one client had not yet
\* sent anything; both have closed and the callback has run
C18_Witness ==
    /\ serverState = "closed"
    /\ callback.runs = 1
    /\ \A s \in Sockets : sock[s] = "closed"
    /\ \E s \in Sockets : \A id \in RequestIds : stream[s][id].begun = 0
    /\ \E s \in Sockets : \E id \in RequestIds : stream[s][id].begun > 0

\* C19: the number of live connections never exceeds the configured maxConns.
C19_ConnectionLimit == Cardinality(connections) <= serverOptions.maxConns

----------------------------------------------------------------------------
(* Properties of the multiplexed connection *)

RECURSIVE ContentOf(_)
ContentOf(recs) == IF recs = <<>> THEN <<>> ELSE Head(recs).content \o ContentOf(Tail(recs))

\* Adjacent segments that continue one another in the same chunk, as one
RECURSIVE Merge(_)
Merge(data) ==
    IF Len(data) < 2 THEN data
    ELSE LET a == data[1]
             b == data[2]
         IN  IF a.tag = b.tag /\ a.val = b.val /\ a.off + a.len = b.off
             THEN Merge(<<[a EXCEPT !.len = a.len + b.len]>> \o Tail(Tail(data)))
             ELSE <<a>> \o Merge(Tail(data))

\* The STDOUT content emitted for invocation i, record after record
StdoutContent(i) ==
    Merge(ContentOf(SelectSeq(RecordsBy(i), LAMBDA r : r.header.type = FCGI_STDOUT)))

PassedBy(i) == IF i \in DOMAIN passed THEN passed[i] ELSE <<>>

\* C21: whatever the interleaving of the calls of handlers that answer
\* requests multiplexed on one connection, the STDOUT content emitted for a
\* request is its header block followed by the chunks its handler passed to
\* write/end, in the order of the calls; nothing is emitted before the end.
C21_PerRequestOrder ==
    \A i \in HandlerSet :
        IF handlers[i].res.finished
        THEN StdoutContent(i) =
                 <<buildHeaders(NewFCGIResponse(SocketOf(i), IdOf(i)))>> \o PassedBy(i)
        ELSE RecordsBy(i) = <<>>

\* Two requests of one connection were answered by handlers that passed the
\* same chunks in opposite orders, and the records of the request dispatched
\* second left first
C21_Witness ==
    \E i \in HandlerSet, j \in HandlerSet :
        /\ i < j
        /\ SocketOf(i) = SocketOf(j)
        /\ handlers[i].res.finished
        /\ handlers[j].res.finished
        /\ PassedBy(i) = <<ChunkOf(BufBig), ChunkOf(StrHello)>>
        /\ PassedBy(j) = <<ChunkOf(StrHello), ChunkOf(BufBig)>>
        /\ written[SocketOf(i)][1].by = j

\* C22: while the write buffer of a connection's socket is full, no record is
\* handed to that socket, and no record handed to a socket is ever dropped.
C22_SuspendsWhileFull ==
    [][\A s \in Sockets :
          /\ full[s] => written'[s] = written[s]
          /\ Len(written'[s]) >= Len(written[s])
          /\ SubSeq(written'[s], 1, Len(written[s])) = written[s]]_vars

----------------------------------------------------------------------------
(* Properties of the management records *)

Range(q) == { q[k] : k \in 1..Len(q) }

\* The variables the server knows, with the values it has to report
Known ==
    [n \in {NameMaxConns, NameMaxReqs, NameMpxsConns} |->
        IF n = NameMaxConns THEN StringBytes(serverOptions.maxConns)
        ELSE IF n = NameMaxReqs THEN StringBytes(serverOptions.maxReqs)
        ELSE <<49>>]

\* What a query has to be answered with
Answer(q) == [n \in Range(q) \cap DOMAIN Known |-> Known[n]]

RECURSIVE PairsLen(_, _)
PairsLen(m, names) ==
    IF names = {} THEN 0
    ELSE LET n == CHOOSE x \in names : TRUE
         IN  2 + Len(n) + Len(m[n]) + PairsLen(m, names \ {n})

\* The record is a GET_VALUES_RESULT on request id 0 that carries exactly m
IsResultOf(w, m) ==
    /\ w.by = 0
    /\ w.header.type = FCGI_GET_VALUES_RESULT
    /\ w.header.requestId = 0
    /\ w.header.version = 1
    /\ Len(w.content) = 1
    /\ w.content[1].tag = "bytes"
    /\ w.header.contentLength = Len(w.content[1].val)
    /\ parseNameValuePairs(w.content[1].val).ok
    /\ parseNameValuePairs(w.content[1].val).params = m
    /\ Len(w.content[1].val) = PairsLen(m, DOMAIN m)

\* C23: a GET_VALUES record is answered with one GET_VALUES_RESULT record on
\* request id 0 that holds exactly the queried ones of FCGI_MAX_CONNS,
\* FCGI_MAX_REQS and FCGI_MPXS_CONNS (the last always 1), and no Pending
\* Request is created or changed.
C23_GetValuesAnswered ==
    [][\A s \in Sockets, id \in {0, 1}, q \in Queries :
          DataMgmt(s, GetValuesRecord(id, q)) =>
              /\ ~crashed'
              /\ Len(written'[s]) = Len(written[s]) + 1
              /\ SubSeq(written'[s], 1, Len(written[s])) = written[s]
              /\ IsResultOf(written'[s][Len(written'[s])], Answer(q))
              /\ requests' = requests
              /\ handlers' = handlers]_vars

\* A query for all three variables and one unknown, with a request pending,
\* on a server with both limits configured, has been answered
C23_Witness ==
    /\ serverOptions.maxConns = 7
    /\ requests["s1"] # EmptyMap
    /\ \E k \in 1..Len(written["s1"]) :
          /\ IsResultOf(written["s1"][k], Known)
          /\ written["s1"][k].content[1].len = 52

----------------------------------------------------------------------------
(* Properties of send *)

\* What send(body) has to do on a Response, in terms of its type() and end()
\* and json(): [res, out, err]
Response_dispatch(res, body) ==
    CASE body.kind \in {"undefined", "null"} -> Response_end(res, Undefined)
      [] body.kind \in {"string", "buffer"} ->
           IF HeaderHas(res.headers, "Content-Type") THEN Response_end(res, body)
           ELSE LET t == Response_type(res, IF body.kind = "string" THEN "html"
                                            ELSE "application/octet-stream")
                IN  IF t.err # NoError THEN t ELSE Response_end(t.res, body)
      [] OTHER -> Response_json(res, body)

\* The same on an FCGIResponse: [res, out]
FCGIResponse_dispatch(res, body) ==
    CASE body.kind \in {"undefined", "null"} -> end(res, Undefined)
      [] body.kind \in {"string", "buffer"} ->
           IF HeaderHas(res.headers, "Content-Type") THEN end(res, body)
           ELSE end(type(res, IF body.kind = "string" THEN "html"
                              ELSE "application/octet-stream"), body)
      [] OTHER -> json(res, body)

\* C24: on both response back-ends send(body) ends the response with no body
\* for null and undefined, sets content type html (string) or
\* application/octet-stream (bytes) only if none is set and ends with the
\* body, and sends any other object through json(body).
C24_SendDispatches ==
    [][\A body \in SendBodies :
          /\ CgiSend(Call("send", 0, "", body)) =>
                /\ cgi'.res = Response_dispatch(cgi.res, body).res
                /\ stdout' = stdout \o Response_dispatch(cgi.res, body).out
                /\ thrown' = Response_dispatch(cgi.res, body).err
          /\ FcgiSend(Call("send", 0, "", body)) =>
                /\ fcgi'.res = FCGIResponse_dispatch(fcgi.res, body).res
                /\ sink' = sink \o FCGIResponse_dispatch(fcgi.res, body).out]_vars

----------------------------------------------------------------------------
(* Properties of the status line *)

\* The reason phrases both transports have to use
Reason(code) ==
    CASE code = 200 -> "OK"
      [] code = 201 -> "Created"
      [] code = 204 -> "No Content"
      [] code = 301 -> "Moved Permanently"
      [] code = 302 -> "Found"
      [] code = 304 -> "Not Modified"
      [] code = 400 -> "Bad Request"
      [] code = 401 -> "Unauthorized"
      [] code = 403 -> "Forbidden"
      [] code = 404 -> "Not Found"
      [] code = 405 -> "Method Not Allowed"
      [] code = 500 -> "Internal Server Error"
      [] code = 502 -> "Bad Gateway"
      [] code = 503 -> "Service Unavailable"
      [] OTHER -> "Unknown"

\* The status line of a serialized header block
StatusLine(h) == "Status: " \o ToString(h.val.statusCode) \o " " \o h.val.reason

\* The header blocks written to standard output / handed to the socket
CgiHeaderBlocks == { stdout[k] : k \in { j \in 1..Len(stdout) : stdout[j].tag = "hdr" } }

FcgiHeaderBlocks ==
    UNION { { sink[k].content[j] :
                j \in { x \in 1..Len(sink[k].content) : sink[k].content[x].tag = "hdr" } } :
            k \in 1..Len(sink) }

\* C25: for every status code both back-ends serialize the same status line
\* 'Status: <code> <reason>', with the reason of the built-in table for
\* 200, 201, 204, 301, 302, 304, 400, 401, 403, 404, 405, 500, 502 and 503
\* and 'Unknown' for any other code.
C25_SameStatusLine ==
    \A h \in CgiHeaderBlocks \cup FcgiHeaderBlocks :
        StatusLine(h) = "Status: " \o ToString(h.val.statusCode) \o " "
                        \o Reason(h.val.statusCode)

----------------------------------------------------------------------------
(* Properties of the query decoder *)

\* The key a pair is stored under
StoredKey(key) == IF EndsWithBrackets(key) THEN SliceBrackets(key) ELSE key

\* The values the input gives for a stored key, in wire order
ValuesFor(pairs, k) ==
    LET hits == SelectSeq(pairs, LAMBDA p : StoredKey(p[1]) = k)
    IN  [i \in 1..Len(hits) |-> hits[i][2]]

\* The key is written with the suffix somewhere in the input
Bracketed(pairs, k) ==
    \E i \in 1..Len(pairs) : EndsWithBrackets(pairs[i][1]) /\ StoredKey(pairs[i][1]) = k

\* C26: the query decoder appends the value of a key ending in '[]' to the
\* list under the key without the suffix, promotes a single value to a list
\* when its key comes again, and stores a value directly otherwise; for
\* every input each list holds its values in wire order and no value of the
\* input is lost.
C26_FoldKeepsEveryValue ==
    query.pc = "done" =>
        /\ query.out.ok
        /\ DOMAIN query.out.result = { StoredKey(query.input[i][1]) : i \in 1..Len(query.input) }
        /\ \A k \in DOMAIN query.out.result :
              /\ query.out.result[k].items = ValuesFor(query.input, k)
              /\ query.out.result[k].list
                    <=> (Bracketed(query.input, k) \/ Len(ValuesFor(query.input, k)) > 1)

----------------------------------------------------------------------------
(* Properties of the delivered request *)

BodyMethods == {"POST", "PUT", "PATCH"}

\* C27: on both transports a request whose method is not POST, PUT or PATCH
\* is delivered with an empty raw body and a null parsed body, whatever
\* bytes arrived on standard input or in STDIN records.
C27_NoBodyForOtherMethods ==
    /\ (delivery.cgiPc = "delivered" /\ delivery.cgi.method \notin BodyMethods)
          => (delivery.cgi.rawBody = <<>> /\ delivery.cgi.body = NullBody)
    /\ (delivery.fcgiPc = "delivered" /\ delivery.fcgi.method \notin BodyMethods)
          => (delivery.fcgi.rawBody = <<>> /\ delivery.fcgi.body = NullBody)

----------------------------------------------------------------------------
(* Properties of readBody *)

\* The bytes the stream has emitted so far
Emitted == Flatten(reader.sent)

\* CONTENT_LENGTH bytes have been received
LengthReached ==
    reader.contentLength # "" /\ Len(Emitted) >= ParseInt(reader.contentLength)

\* C28: reading the body from a chunked stream returns exactly the first
\* min(total stream length, CONTENT_LENGTH) bytes of the stream, and the read
\* completes as soon as the stream ends or CONTENT_LENGTH bytes have been
\* received, without waiting for a further chunk or for end-of-stream.
C28_ReadsUpToContentLength ==
    /\ reader.pc = "returned" =>
          Flatten(reader.chunks) =
              SubSeq(Emitted, 1, IF LengthReached THEN ParseInt(reader.contentLength)
                                 ELSE Len(Emitted))
    /\ (reader.pc \in {"awaiting", "returned"} /\ (reader.ended \/ LengthReached))
          => reader.pc = "returned"

----------------------------------------------------------------------------
(* Properties of the router *)

\* The pattern matches the path: it is '*', or it has as many parts as the
\* path and each part is a parameter or equals the part of the path
PatternMatches(pattern, path) ==
    \/ pattern = Star
    \/ /\ Len(pattern) = Len(path)
       /\ \A i \in 1..Len(pattern) : StartsWithColon(pattern[i]) \/ pattern[i] = path[i]

\* The routes that match the request handled
Matching ==
    { i \in 1..Len(routing.routes) :
        /\ routing.routes[i].method \in {"*", routing.req.method}
        /\ PatternMatches(routing.routes[i].path, routing.req.path) }

\* C29: router.handle invokes exactly one handler, that of the first
\* registered route whose method is '*' or the request's and whose pattern
\* matches the request's path; if no route matches, no handler is invoked
\* and the response gets status 404.
C29_FirstMatchingRoute ==
    routing.pc = "handled" =>
        IF Matching = {}
        THEN routing.invoked = <<>> /\ routing.res.statusCode = 404
        ELSE /\ routing.invoked = <<CHOOSE i \in Matching : \A j \in Matching : i <= j>>
             /\ routing.res = NewResponse

\* Three routes: the first does not match, the other two do, and the
\* second one's handler ran
C29_Witness ==
    /\ routing.pc = "handled"
    /\ Matching = {2, 3}
    /\ routing.invoked = <<2>>
    /\ routing.req.params = [id |-> "42"]

\* No route matches and the response is the 404
C29_WitnessNotFound ==
    /\ routing.pc = "handled"
    /\ Len(routing.routes) = MaxRoutes
    /\ Matching = {}
    /\ routing.res.statusCode = 404
    /\ routing.res.finished

----------------------------------------------------------------------------
(* Properties of compose *)

\* C30: in a handler built by compose the middlewares are invoked in
\* registration order, each at most once per call of the composed handler,
\* and a middleware is invoked only if the one before it called next(); a
\* middleware that returns without calling next() stops the chain, and each
\* call of the composed handler starts again at the first middleware.
C30_ChainFollowsNext ==
    /\ \A i \in 1..Len(chain.invoked) : chain.invoked[i] = i
    /\ \A i \in 2..Len(chain.invoked) : chain.nexts[i - 1] >= 1
    /\ \A k \in chain.returned : chain.nexts[k] = 0 => Len(chain.invoked) = k
    /\ chain.calls >= 1 => (chain.invoked # <<>> /\ chain.invoked[1] = 1)

----------------------------------------------------------------------------
(* Properties of the stream-record builder *)

\* C31: for every payload the stream-record builder emits records whose
\* content lengths are at most 65,535, all but the last exactly 65,535, whose
\* padding length is (8 - content_length mod 8) mod 8, and whose contents in
\* order are the payload; content lengths 1, 8 and 65,535 get padding 7, 0
\* and 1 (no record of content length 0 is built).
C31_StreamRecordsCarryPayload ==
    framing.pc = "done" =>
        LET out == framing.out IN
        /\ \A k \in 1..Len(out) :
              /\ out[k].header.contentLength \in 1..65535
              /\ out[k].header.contentLength = DataLen(out[k].content)
              /\ k < Len(out) => out[k].header.contentLength = 65535
              /\ out[k].header.paddingLength \in 0..7
              /\ (out[k].header.contentLength + out[k].header.paddingLength) % 8 = 0
              /\ out[k].padding = out[k].header.paddingLength
              /\ out[k].header.contentLength = 1 => out[k].header.paddingLength = 7
              /\ out[k].header.contentLength = 8 => out[k].header.paddingLength = 0
              /\ out[k].header.contentLength = 65535 => out[k].header.paddingLength = 1
              /\ out[k].header.type = FCGI_STDOUT
              /\ out[k].header.requestId = 1
        /\ Merge(ContentOf(out)) = Merge(framing.data)
        /\ framing.data = <<>> => out = <<>>

\* A payload of three Buffers, 131,079 bytes, was framed as two full records
\* and one of nine bytes: the records cut across the Buffers
C31_Witness ==
    /\ framing.pc = "done"
    /\ Len(framing.data) = 3
    /\ DataLen(framing.data) = 131079
    /\ Len(framing.out) = 3
    /\ framing.out[3].header.contentLength = 9
    /\ framing.out[3].header.paddingLength = 7

----------------------------------------------------------------------------
(* Properties of the records written *)

\* The record's header says what follows it, and the record ends on a
\* multiple of 8 bytes
Aligned(w) ==
    /\ w.header.contentLength = DataLen(w.content)
    /\ w.header.paddingLength = w.padding
    /\ (8 + w.header.contentLength + w.header.paddingLength) % 8 = 0

\* C32: every record the engine writes to a connection (STDOUT, empty STDOUT,
\* END_REQUEST and GET_VALUES_RESULT) occupies 8 + content_length +
\* padding_length bytes, with the header fields equal to the actual content
\* and padding sizes, and that total is a multiple of 8.
C32_RecordsAligned ==
    \A s \in Sockets : \A k \in 1..Len(written[s]) : Aligned(written[s][k])

----------------------------------------------------------------------------
(* Properties of the inbound buffer *)

\* What _processRecord has to be handed for a record of the client
Framed(r) ==
    [header |-> [version |-> 1, type |-> r.type, requestId |-> r.requestId,
                 contentLength |-> Len(r.content), paddingLength |-> r.paddingLength,
                 reserved |-> 0],
     content |-> r.content]

\* C33: however the inbound byte stream is split into chunks, the records
\* processed are those of the stream, in order; after each chunk the inbound
\* buffer holds exactly the bytes not yet framed, fewer than one complete
\* record.
C33_FramingIgnoresChunking ==
    LET j == Len(inbound.processed)
        done == SubSeq(inbound.records, 1, j)
    IN  /\ j <= Len(inbound.records)
        /\ inbound.processed = [k \in 1..j |-> Framed(inbound.records[k])]
        /\ inbound.received = EncodeAll(done) \o inbound.buffer
        /\ j < Len(inbound.records) =>
               Len(inbound.buffer) < Len(Encode(inbound.records[j + 1]))
        /\ j = Len(inbound.records) => inbound.buffer = <<>>

\* A chunk ended three bytes into the header of the second record: the first
\* record was processed and the three bytes wait in the buffer
C33_Witness ==
    /\ Len(inbound.records) = 2
    /\ Len(inbound.processed) = 1
    /\ inbound.records[2].requestId = 258
    /\ inbound.buffer = <<1, FCGI_STDIN, 1>>

----------------------------------------------------------------------------
(* Properties of requests side by side *)

\* The Pending Request of (connection, id), if there is one
Pending(s, id) == IF id \in DOMAIN requests[s] THEN <<requests[s][id]>> ELSE <<>>

\* The parameters that the PARAMS contents sent carry: one-byte name and value
\* lengths, a later value of a name replacing an earlier one
ParamsSent(contents) ==
    [name \in { <<contents[k][3]>> : k \in 1..Len(contents) } |->
        LET last == CHOOSE k \in 1..Len(contents) :
                        /\ <<contents[k][3]>> = name
                        /\ \A j \in (k + 1)..Len(contents) : <<contents[j][3]>> # name
        IN  <<contents[last][4]>>]

\* C34: a record for one request id leaves the Pending Requests of the other
\* ids of its connection and the whole state of the other connections as they
\* were; a request is dispatched with exactly the parameters and the standard
\* input sent under its own connection and id; the records of a response
\* carry the id of the request it answers, on that request's connection.
C34_RequestsIsolated ==
    [][/\ \A s \in Sockets : \A rec \in IsolationRecords(s) :
             DataIsolation(s, rec) =>
                 /\ \A t \in Sockets : \A id \in RequestIds :
                        (t # s \/ id # rec.requestId) =>
                            Pending(t, id)' = Pending(t, id)
                 /\ \A t \in Sockets \ {s} :
                        /\ sock'[t] = sock[t]
                        /\ written'[t] = written[t]
                        /\ (t \in connections') = (t \in connections)
                 /\ \A i \in HandlerSet : handlers'[i] = handlers[i]
                 /\ Dispatches =>
                        LET h == handlers'[Len(handlers')]
                            data == sent'[s][rec.requestId]
                        IN  /\ h.res.socket = s
                            /\ h.res.requestId = rec.requestId
                            /\ h.fcgiReq.requestId = rec.requestId
                            /\ h.fcgiReq.params = ParamsSent(data.params)
                            /\ h.fcgiReq.stdin = data.stdin
       /\ \A s \in Sockets : \A k \in 1..Len(written'[s]) :
             written'[s][k].by # 0 =>
                 /\ handlers'[written'[s][k].by].res.socket = s
                 /\ written'[s][k].header.requestId
                        = handlers'[written'[s][k].by].fcgiReq.requestId
    ]_vars

\* Two requests with the same id, one on each connection, were dispatched and
\* answered; each carries the parameter of its own connection, and the second
\* the standard input of its own
C34_Witness ==
    /\ Len(handlers) = 2
    /\ handlers[1].res.socket # handlers[2].res.socket
    /\ \A i \in HandlerSet :
          /\ handlers[i].res.requestId = 1
          /\ handlers[i].fcgiReq.params = (<<65>> :> <<Mark(SocketOf(i), 1)>>)
          /\ EndRequests(RecordsBy(i)) = 1
    /\ handlers[2].fcgiReq.stdin = <<(<<Mark(SocketOf(2), 1)>>)>>

----------------------------------------------------------------------------
(* Properties of a connection that closed *)

\* C35: when a connection closes its Pending Requests are destroyed and it
\* leaves the live-connection set; from then on it has no Pending Request, is
\* not live, and no 'request' event is emitted for it.
C35_ClosedConnectionForgotten ==
    [][\A s \in Sockets :
          (SocketClose(s) \/ sock[s] = "closed") =>
              /\ sock'[s] = "closed"
              /\ requests'[s] = EmptyMap
              /\ s \notin connections'
              /\ \A i \in 1..Len(handlers') :
                    i > Len(handlers) => handlers'[i].res.socket # s
    ]_vars

\* A connection closed while a request of its own was begun, neither aborted
\* nor dispatched, and the other connection took a record afterwards
C35_Witness ==
    \E s \in Sockets : \E t \in Sockets \ {s} :
        /\ sock[s] = "closed"
        /\ \E id \in RequestIds :
              /\ stream[s][id].begun > 0
              /\ ~stream[s][id].aborted
              /\ stream[s][id].dispatched = 0
        /\ requests[s] = EmptyMap
        /\ s \notin connections
        /\ closedAt[s] = 0
        /\ requests[t] # EmptyMap

----------------------------------------------------------------------------
(* Properties of requests in flight *)

\* The handlers that have not finished
InFlight == {i \in HandlerSet : handlers[i].pc = "running"}

\* The listener can take the record: the connection is open and the record is
\* one its client may send next
Deliverable(s, rec) ==
    /\ ~crashed
    /\ sock[s] = "open"
    /\ nrecv < MaxRecordsIsolation
    /\ KeepsWellFormed(stream[s][rec.requestId], rec)

\* The record is the stream terminator that completes its request
Completes(s, rec) ==
    LET st == stream[s][rec.requestId] IN
    /\ st.begun > 0
    /\ ~st.aborted
    /\ st.dispatched = 0
    /\ Len(rec.content) = 0
    /\ \/ rec.type = FCGI_PARAMS /\ st.termS /\ ~st.termP
       \/ rec.type = FCGI_STDIN /\ st.termP /\ ~st.termS

\* C36: handlers in flight do not block the engine: while handlers are
\* suspended, the record that completes another request can be taken from its
\* open connection, and taking it dispatches that request in that very step,
\* leaving the handlers in flight as they are.
C36_DispatchNotBlocked ==
    /\ [](\A s \in Sockets : \A rec \in IsolationRecords(s) :
             (InFlight # {} /\ Deliverable(s, rec) /\ Completes(s, rec)) =>
                 ENABLED DataIsolation(s, rec))
    /\ [][\A s \in Sockets : \A rec \in IsolationRecords(s) :
             (DataIsolation(s, rec) /\ Completes(s, rec)) =>
                 /\ Dispatches
                 /\ handlers'[Len(handlers')].pc = "running"
                 /\ handlers'[Len(handlers')].res.socket = s
                 /\ handlers'[Len(handlers')].res.requestId = rec.requestId
                 /\ \A i \in HandlerSet : handlers'[i] = handlers[i]
       ]_vars

\* Three handlers are in flight at once: two for requests multiplexed on one
\* connection, dispatched one after the other, and one for the other connection
C36_Witness ==
    /\ Len(handlers) = 3
    /\ \A i \in HandlerSet : handlers[i].pc = "running"
    /\ SocketOf(1) = SocketOf(2)
    /\ IdOf(1) # IdOf(2)
    /\ SocketOf(3) # SocketOf(1)

----------------------------------------------------------------------------
(* Properties of the requests begun and ended *)

\* The END_REQUEST records handed to the socket of s for request id
EndRequestsFor(s, id) ==
    Cardinality({k \in 1..Len(written[s]) :
                    /\ written[s][k].header.type = FCGI_END_REQUEST
                    /\ written[s][k].header.requestId = id})

\* C37: on every connection and for every request id, the END_REQUEST records
\* written for the id are at most as many as the BEGIN_REQUEST records
\* received for it.
C37_EndedAtMostBegun ==
    \A s \in Sockets : \A id \in RequestIds :
        EndRequestsFor(s, id) <= stream[s][id].begun

\* A request was begun once and its handler called end() twice and returned:
\* one END_REQUEST was written for it
C37_Witness ==
    \E i \in HandlerSet :
        /\ handlers[i].pc = "done"
        /\ ncalls = 2
        /\ Len(RecordsBy(i)) = 3
        /\ stream[SocketOf(i)][IdOf(i)].begun = 1
        /\ EndRequestsFor(SocketOf(i), IdOf(i)) = 1

----------------------------------------------------------------------------
(* Properties of a request id begun again *)

\* C38: a BEGIN_REQUEST leaves one Pending Request for its id, a fresh one,
\* whether or not the id had one; a request is dispatched with the data
\* received since the latest BEGIN_REQUEST of its id and no other; within one
\* Pending Request a completion flag that is true stays true.
C38_BeginReplaces ==
    [][\A s \in Sockets : \A rec \in RebeginRecords :
          DataRebegin(s, rec) =>
              LET id == rec.requestId IN
              /\ rec.type = FCGI_BEGIN_REQUEST =>
                    /\ id \in DOMAIN requests'[s]
                    /\ requests'[s][id].requestId = id
                    /\ requests'[s][id].params = EmptyMap
                    /\ requests'[s][id].stdin = <<>>
                    /\ ~requests'[s][id].paramsComplete
                    /\ ~requests'[s][id].stdinComplete
                    /\ DOMAIN requests'[s] = DOMAIN requests[s] \cup {id}
              /\ Dispatches =>
                    /\ handlers'[Len(handlers')].fcgiReq.params
                          = ParamsSent(sent'[s][id].params)
                    /\ handlers'[Len(handlers')].fcgiReq.stdin = sent'[s][id].stdin
              /\ (rec.type # FCGI_BEGIN_REQUEST
                  /\ id \in DOMAIN requests[s] /\ id \in DOMAIN requests'[s]) =>
                    /\ requests[s][id].paramsComplete => requests'[s][id].paramsComplete
                    /\ requests[s][id].stdinComplete => requests'[s][id].stdinComplete
    ]_vars

\* Request 1 was begun, took one PARAMS or STDIN record and was begun again:
\* three records, all for request 1, and the Pending Request is a fresh one
C38_Witness ==
    /\ nrecv = 3
    /\ stream["s1"][1].begun = 2
    /\ stream["s1"][2] = NoStream
    /\ sent["s1"][2] = NoneSent
    /\ 1 \in DOMAIN requests["s1"]
    /\ requests["s1"][1].params = EmptyMap
    /\ ~requests["s1"][1].paramsComplete

----------------------------------------------------------------------------
(* Properties of the query decoder's outcome *)

\* C39: the query decoder is total: for every ordered sequence of key/value
\* pairs, those that mix a plain key with its '[]' form included, the call
\* returns a mapping and does not throw.
C39_DecoderTotal == query.pc = "done" => query.out.ok

----------------------------------------------------------------------------
(* Properties of the response flags under every call, sendFile included *)

\* The header blocks handed to process.stdout
CgiHeaderWrites == {k \in 1..Len(stdout) : stdout[k].tag = "hdr"}

\* The header blocks pushed onto the buffer of the FCGIResponse
FcgiHeaderPushes == {k \in 1..Len(fcgi.res.buffer) : fcgi.res.buffer[k].tag = "hdr"}

\* The places in the records written where a header block starts
FcgiHeaderStarts ==
    UNION { { <<k, j>> : j \in { x \in 1..Len(sink[k].content) :
                                    /\ sink[k].content[x].tag = "hdr"
                                    /\ sink[k].content[x].off = 0 } } :
            k \in 1..Len(sink) }

\* C40: on a Response and on an FCGIResponse, finished implies headers-sent
\* and the header block is serialized at most once, whatever calls of write,
\* end, send, json, redirect and sendFile were made.
C40_FinishedHasHeadersOnce ==
    /\ cgi.res.finished => cgi.res.headersSent
    /\ fcgi.res.finished => fcgi.res.headersSent
    /\ Cardinality(CgiHeaderWrites) <= 1
    /\ Cardinality(FcgiHeaderPushes) <= 1
    /\ Cardinality(FcgiHeaderStarts) <= 1

\* One sendFile piped its file and finished the Response, a second one found
\* the headers sent and was rejected, and the FCGIResponse was written to and
\* ended
C40_Witness ==
    /\ \E k \in 1..Len(file) : file[k].pc = "resolved" /\ file[k].path.exists
    /\ \E k \in 1..Len(file) : file[k].pc = "rejected"
    /\ \E k \in 1..Len(stdout) : stdout[k].tag = "file"
    /\ cgi.res.finished
    /\ Cardinality(CgiHeaderWrites) = 1
    /\ fcgi.res.finished
    /\ Len(fcgi.res.buffer) = 2
    /\ Cardinality(FcgiHeaderStarts) = 1

====
